---- MODULE Spec2Model ----
(***************************************************************************)
(* Session and layout management of lapce-app (src/lapce-app/src/app.rs).  *)
(*                                                                         *)
(* Part 1: the single-instance hand-off protocol of launch(),              *)
(* try_open_in_existing_process() and listen_local_socket(), and the       *)
(* choice of the initial windows by AppData::create_windows().             *)
(***************************************************************************)
EXTENDS Integers, Sequences, FiniteSets, TLC

(***************************************************************************)
(* Bounds of the model.                                                    *)
(***************************************************************************)
\* Lapce processes that are launched (each launched once).
NumProcs == 2
\* Other local peers that connect to the channel address and write frames.
NumForeign == 1
\* Frames a foreign peer writes before it closes its end.
MaxForeignMsgs == 2
\* Granularity of the clock that measures the client's wait, in ms.
TickMs == 250
\* Longest command line (number of paths) in the start-up specification.
MaxPaths == 2
\* Windows one run of the application opens, and writes it makes on request.
MaxWindows == 2
MaxWrites == 1
\* Panes, nested splits and tabs of one workspace tab.
MaxGroups == 3
MaxSplits == 2
MaxChildren == 3
MaxTabs == 3
\* Fractional bits kept of an f64 size ratio (an f64 keeps 52).
FracBits == 6
MaxUlps == 4

(***************************************************************************)
(* Program constants.                                                      *)
(***************************************************************************)
\* rx.recv_timeout(Duration::from_millis(500))
AckTimeoutMs == 500
\* let mut buf = [0; 100];
BufSize == 100
\* sync_channel(1)
ChanCap == 1
\* pos += (50.0, 50.0)
WindowOffset == 50

Procs == 1 .. NumProcs
Foreign == (NumProcs + 1) .. (NumProcs + NumForeign)
\* A connection is named after the peer that opened it.
Conns == Procs \cup Foreign

Min(a, b) == IF a < b THEN a ELSE b

RECURSIVE Flatten(_)
Flatten(ss) == IF ss = <<>> THEN <<>> ELSE Head(ss) \o Flatten(Tail(ss))

(***************************************************************************)
(* PathObject: path ids 1, 2 are files and 3, 4 directories.               *)
(***************************************************************************)
PathObject(id, dir) == [path |-> id, is_dir |-> dir]
File1 == PathObject(1, FALSE)
File2 == PathObject(2, FALSE)
Dir1 == PathObject(3, TRUE)
Dir2 == PathObject(4, TRUE)
PathObjects == {File1, File2, Dir1, Dir2}

\* The command lines of the protocol specification.
LaunchArgs == {<<File1>>, <<Dir1, File2>>}

\* Every command line of at most MaxPaths paths (start-up specification).
AllArgs == UNION {[1 .. n -> PathObjects] : n \in 0 .. MaxPaths}

(***************************************************************************)
(* Wire format.  A message is written as one frame: a length prefix        *)
(* followed by the serialized payload (kind code, then two units per       *)
(* path).  The acknowledgement is the unframed ASCII text "received".      *)
(***************************************************************************)
KindNotification == 1
KindRequest == 2

\* b"received"
AckLiteral == <<114, 101, 99, 101, 105, 118, 101, 100>>

\* Mutant: only the first path is put in the notification.
OpenPathsMsgFirstOnly(paths) ==
    [kind |-> KindNotification, paths |-> SubSeq(paths, 1, Min(1, Len(paths)))]

\* RpcMessage::Notification(CoreNotification::OpenPaths { paths: paths.to_vec() })
OpenPathsMsg(paths) == [kind |-> KindNotification, paths |-> paths]

RequestMsg == [kind |-> KindRequest, paths |-> <<>>]

SerializePath(po) == <<po.path, IF po.is_dir THEN 1 ELSE 0>>

Serialize(msg) ==
    <<msg.kind>> \o Flatten([i \in 1 .. Len(msg.paths) |-> SerializePath(msg.paths[i])])

\* lapce_rpc::stdio::write_msg
WriteMsg(msg) == <<Len(Serialize(msg))>> \o Serialize(msg)

\* A frame whose payload is no message (unknown kind code).
MalformedFrame == <<1, 9>>

DeserializePaths(units) ==
    [i \in 1 .. (Len(units) \div 2) |->
        PathObject(units[2 * i - 1], units[2 * i] = 1)]

PayloadOk(body) ==
    /\ Len(body) >= 1
    /\ body[1] \in {KindNotification, KindRequest}
    /\ (Len(body) - 1) % 2 = 0
    /\ \A i \in 1 .. ((Len(body) - 1) \div 2) : body[2 * i + 1] \in {0, 1}

\* lapce_rpc::stdio::read_msg on the bytes received so far:
\* Ok(Some(msg)) with the rest of the stream, or Err.
ReadMsg(stream) ==
    IF Len(stream) = 0 \/ Len(stream) < 1 + stream[1]
    THEN [status |-> "err", msg |-> RequestMsg, rest |-> <<>>]
    ELSE LET n == stream[1]
             body == SubSeq(stream, 2, 1 + n)
             rest == SubSeq(stream, 2 + n, Len(stream))
         IN IF PayloadOk(body)
            THEN [status |-> "ok",
                  msg |-> [kind |-> body[1],
                           paths |-> DeserializePaths(Tail(body))],
                  rest |-> rest]
            ELSE [status |-> "err", msg |-> RequestMsg, rest |-> rest]

(***************************************************************************)
(* WindowInfo, TabsInfo, LapceWorkspace and the session store.             *)
(***************************************************************************)
\* WindowId::from_raw(0): the value of AppData::active_window before any
\* window has got focus; no window has this id.
NoWindow == 0

\* LapceWorkspace { kind, path, last_open }; path 0 is None.
Workspace(path) == [kind |-> "Local", path |-> path, last_open |-> 0]
\* LapceWorkspace::default()
DefaultWorkspace == Workspace(0)

WindowInfo(size, pos, maximised, active, workspaces) ==
    [size |-> size, pos |-> pos, maximised |-> maximised,
     tabs |-> [active_tab |-> active, workspaces |-> workspaces]]

\* Size::new(800.0, 600.0)
DefaultSize == <<800, 600>>
\* Point::ZERO
PointZero == <<0, 0>>

SavedWin1 == WindowInfo(<<1024, 768>>, <<10, 20>>, TRUE, 1,
                        <<Workspace(3), Workspace(4)>>)
SavedWin2 == WindowInfo(<<640, 480>>, <<30, 40>>, FALSE, 0, <<DefaultWorkspace>>)

\* The session store: the result of db.get_app() and of db.get_window().
Db(appOk, wins, winOk, win) ==
    [app |-> [ok |-> appOk, windows |-> wins],
     window |-> [ok |-> winOk, info |-> win]]

\* Nothing persisted yet.
EmptyDb == Db(FALSE, <<>>, FALSE, SavedWin2)

DbStates ==
    {EmptyDb,
     Db(TRUE, <<>>, FALSE, SavedWin2),
     Db(TRUE, <<SavedWin1>>, TRUE, SavedWin1),
     Db(TRUE, <<SavedWin1, SavedWin2>>, TRUE, SavedWin2),
     Db(TRUE, <<SavedWin2, SavedWin1>>, TRUE, SavedWin1),
     Db(FALSE, <<>>, TRUE, SavedWin1)}

(***************************************************************************)
(* AppData::create_windows: the windows the application is built with,    *)
(* each the WindowInfo and the files handed to app_view.                   *)
(***************************************************************************)
IsDir(po) == po.is_dir
IsFile(po) == ~po.is_dir

InitialWindow(info, files) == [info |-> info, files |-> files]

\* let (size, mut pos) = db.get_window().map(..).unwrap_or_else(..)
LastSizePos(store) ==
    IF store.window.ok
    THEN [size |-> store.window.info.size, pos |-> store.window.info.pos]
    ELSE [size |-> DefaultSize, pos |-> PointZero]

\* for dir in dirs { .. files.take().unwrap_or_default() .. pos += (50.0, 50.0) }
DirWindows(dirs, files, store) ==
    LET sp == LastSizePos(store)
    IN [i \in 1 .. Len(dirs) |->
          InitialWindow(
              WindowInfo(sp.size,
                         <<sp.pos[1] + (i - 1) * WindowOffset,
                           sp.pos[2] + (i - 1) * WindowOffset>>,
                         FALSE, 0, <<Workspace(dirs[i].path)>>),
              IF i = 1 THEN files ELSE <<>>)]

\* Mutant: the saved windows are restored last first.
RestoredWindowsReversed(store) ==
    IF store.app.ok
    THEN [i \in 1 .. Len(store.app.windows) |->
            InitialWindow(store.app.windows[Len(store.app.windows) + 1 - i], <<>>)]
    ELSE <<>>

\* match db.get_app() { Ok(app_info) => for info in app_info.windows {..}, Err => log }
RestoredWindows(store) ==
    IF store.app.ok
    THEN [i \in 1 .. Len(store.app.windows) |->
            InitialWindow(store.app.windows[i], <<>>)]
    ELSE <<>>

\* Mutant: the fallback window is built without the named files.
FallbackWindowNoFiles(files, store) ==
    LET info == IF store.window.ok
                THEN store.window.info
                ELSE WindowInfo(DefaultSize, PointZero, FALSE, 0, <<DefaultWorkspace>>)
    IN InitialWindow(
           [info EXCEPT !.tabs = [active_tab |-> 0,
                                  workspaces |-> <<DefaultWorkspace>>]],
           <<>>)

\* if inital_windows == 0 { .. }
FallbackWindow(files, store) ==
    LET info == IF store.window.ok
                THEN store.window.info
                ELSE WindowInfo(DefaultSize, PointZero, FALSE, 0, <<DefaultWorkspace>>)
    IN InitialWindow(
           [info EXCEPT !.tabs = [active_tab |-> 0,
                                  workspaces |-> <<DefaultWorkspace>>]],
           files)

\* Mutant: the last session is restored whenever no directory is named.
PlannedWindowsAlwaysRestore(dirs, files, store) ==
    IF dirs # <<>>
    THEN DirWindows(dirs, files, store)
    ELSE RestoredWindows(store)

\* if !dirs.is_empty() {..} else if files.is_none() {..}
PlannedWindows(dirs, files, store) ==
    IF dirs # <<>>
    THEN DirWindows(dirs, files, store)
    ELSE IF files = <<>>
         THEN RestoredWindows(store)
         ELSE <<>>

\* Mutant: the application is built with the planned windows only.
CreateWindowsAsPlanned(paths, store) ==
    PlannedWindows(SelectSeq(paths, IsDir), SelectSeq(paths, IsFile), store)

\* AppData::create_windows(db, paths)
CreateWindows(paths, store) ==
    LET dirs == SelectSeq(paths, IsDir)
        files == SelectSeq(paths, IsFile)
        planned == PlannedWindows(dirs, files, store)
    IN IF Len(planned) = 0
       THEN <<FallbackWindow(files, store)>>
       ELSE planned

(***************************************************************************)
(* The split tree of a workspace tab: SplitData, SplitContent and          *)
(* EditorTabData, held in maps by id, and the operations on them.          *)
(***************************************************************************)
SplitIds == 1 .. MaxSplits
EditorTabIds == 1 .. MaxGroups
ChildIds == 1 .. MaxChildren
WindowTabIds == 1 .. MaxTabs

\* A size ratio is an f64; it is kept as a count of units of 2^-FracBits, and
\* a division rounds to the nearest unit, ties to even, as f64 division
\* rounds to the nearest f64.
One == 2 ^ FracBits

RoundDiv(a, b) ==
    LET q == a \div b
        r == a % b
    IN IF 2 * r < b THEN q
       ELSE IF 2 * r > b THEN q + 1
       ELSE IF q % 2 = 0 THEN q ELSE q + 1

\* px / total_px as a ratio
FDiv(px, total) == RoundDiv(px * One, total)

RECURSIVE Sum(_)
Sum(seq) == IF seq = <<>> THEN 0 ELSE Head(seq) + Sum(Tail(seq))

\* SplitContent::EditorTab(id) and SplitContent::Split(id)
EditorTab(id) == [kind |-> "EditorTab", id |-> id]
SplitOf(id) == [kind |-> "Split", id |-> id]
Nodes == {EditorTab(g) : g \in EditorTabIds} \cup {SplitOf(s) : s \in SplitIds}

\* One entry of SplitData::children: (size, content)
SplitChild(size, content) == [size |-> size, content |-> content]

SplitData(direction, children) == [direction |-> direction, children |-> children]

\* EditorTabData: the children in header order (a child's order index is its
\* position, counted from 0) and the active index.
EditorTabData(children, active) == [children |-> children, active |-> active]

\* The tree as one value.
Layout(ss, ts, root) == [splits |-> ss, editor_tabs |-> ts, root |-> root]

RemoveAt(seq, i) == SubSeq(seq, 1, i - 1) \o SubSeq(seq, i + 1, Len(seq))
InsertAt(seq, i, x) == SubSeq(seq, 1, i - 1) \o <<x>> \o SubSeq(seq, i, Len(seq))

\* A list given by its entries, as a list.
Listed(entries) == SubSeq(entries, 1, Len(entries))

Sizes(children) == Listed([i \in 1 .. Len(children) |-> children[i].size])
Contents(children) == Listed([i \in 1 .. Len(children) |-> children[i].content])

\* Where content is held: the splits that list it, and its place in one.
ParentsOf(L, content) ==
    {s \in DOMAIN L.splits :
        \E i \in 1 .. Len(L.splits[s].children) :
            L.splits[s].children[i].content = content}
SlotOf(L, s, content) ==
    CHOOSE i \in 1 .. Len(L.splits[s].children) :
        L.splits[s].children[i].content = content

\* A map of records by id, without the entry of x and with v as that of x.
RECURSIVE Restricted(_, _)
Restricted(f, S) ==
    IF S = {} THEN <<>>
    ELSE LET x == CHOOSE y \in S : TRUE
         IN (x :> f[x]) @@ Restricted(f, S \ {x})
Without(f, x) == Restricted(f, DOMAIN f \ {x})
With(f, x, v) == (x :> v) @@ Without(f, x)

FreshSplit(L) == CHOOSE s \in SplitIds \ DOMAIN L.splits :
                     \A t \in SplitIds \ DOMAIN L.splits : s <= t
FreshEditorTab(L) == CHOOSE g \in EditorTabIds \ DOMAIN L.editor_tabs :
                         \A h \in EditorTabIds \ DOMAIN L.editor_tabs : g <= h

\* Clamp(i, n): the index i brought into 0 .. n - 1 (0 for an empty list).
Clamp(i, n) == IF i < 0 \/ n = 0 THEN 0 ELSE IF i > n - 1 THEN n - 1 ELSE i


\* insert_pane, same direction: each of the n siblings scaled by n/(n+1).
\* Mutant: the siblings keep their ratios when one more joins them.
RebalancedKept(children) == children

\* insert_pane, same direction: every sibling's ratio scaled by n/(n+1).
Rebalanced(children) ==
    LET n == Len(children)
    IN Listed([i \in 1 .. n |->
          SplitChild(RoundDiv(children[i].size * n, n + 1), children[i].content)])

\* Mutant: the target keeps its parent slot as well.
NestedSlotKept(s, target) == EditorTab(target)

\* insert_pane, other direction: what the target's parent slot holds then.
NestedSlot(s, target) == SplitOf(s)

\* insert_pane(target_leaf, new_pane, direction), the new pane before or after
\* the target: a further sibling with ratio 1/(n+1) when the parent has the
\* direction, else a new SplitNode holding both at ratio 0.5 in the target's slot.
InsertPane(L, target, new, direction, before) ==
    LET p == CHOOSE s \in ParentsOf(L, EditorTab(target)) : TRUE
        i == SlotOf(L, p, EditorTab(target))
        node == L.splits[p]
    IN IF node.direction = direction
       THEN LET n == Len(node.children)
                kids == InsertAt(Rebalanced(node.children),
                                 IF before THEN i ELSE i + 1,
                                 SplitChild(FDiv(1, n + 1), EditorTab(new)))
            IN [L EXCEPT !.splits[p].children = kids]
       ELSE LET s == FreshSplit(L)
                pair == IF before THEN <<new, target>> ELSE <<target, new>>
                kids == <<SplitChild(FDiv(1, 2), EditorTab(pair[1])),
                          SplitChild(FDiv(1, 2), EditorTab(pair[2]))>>
            IN [L EXCEPT !.splits =
                   With([@ EXCEPT ![p].children[i].content = NestedSlot(s, target)],
                        s, SplitData(direction, kids))]

\* The siblings left when child i is removed: the vacated ratio is merged
\* into them in proportion to their ratios (in equal parts when these give
\* no proportion).
\* Mutant: the vacated ratio is merged in equal parts.
MergedEqually(children, i) ==
    LET rest == RemoveAt(children, i)
    IN Listed([k \in 1 .. Len(rest) |->
          SplitChild(rest[k].size + RoundDiv(children[i].size, Len(rest)),
                     rest[k].content)])

Merged(children, i) ==
    LET rest == RemoveAt(children, i)
        vacated == children[i].size
        total == Sum(Sizes(rest))
        proportional == total > 0 /\ \A k \in 1 .. Len(rest) : rest[k].size >= 0
    IN Listed([k \in 1 .. Len(rest) |->
          SplitChild(IF proportional
                     THEN RoundDiv(rest[k].size * (total + vacated), total)
                     ELSE FDiv(1, Len(rest)),
                     rest[k].content)])

\* Mutant: a SplitNode left without children stays in the tree.
SplicedOutNever(count, isRoot) == FALSE

\* A SplitNode whose last child was removed is spliced out, and so is one
\* below the root that is left with a single child.
SplicedOut(count, isRoot) == count = 0 \/ (count = 1 /\ ~isRoot)

\* Removing content from its parent SplitNode.  The root is named by
\* root_split for as long as the workspace tab lives: it takes no other
\* node's place, and no other node takes its place.
RECURSIVE RemoveContent(_, _)
RemoveContent(L, content) ==
    LET p == CHOOSE s \in ParentsOf(L, content) : TRUE
        node == L.splits[p]
        kids == Merged(node.children, SlotOf(L, p, content))
        isRoot == p \in L.root
    IN IF ~SplicedOut(Len(kids), isRoot)
       THEN [L EXCEPT !.splits[p].children = kids]
       ELSE IF Len(kids) = 0
       THEN IF isRoot
            THEN [L EXCEPT !.splits = Without(@, p)]
            ELSE RemoveContent([L EXCEPT !.splits = Without(@, p)], SplitOf(p))
       ELSE LET gp == CHOOSE s \in ParentsOf(L, SplitOf(p)) : TRUE
                j == SlotOf(L, gp, SplitOf(p))
            IN [L EXCEPT !.splits =
                   Without([@ EXCEPT ![gp].children[j].content = kids[1].content], p)]

\* Mutant: the active index stays as it was when a child is removed.
ReclampedNever(active, n) == active

\* The active index of a group after a removal that leaves n children.
Reclamped(active, n) == Clamp(active, n)

\* A child leaves its group; the active index is re-clamped; a group left
\* without children is removed from the tree.
RemoveChild(L, g, index) ==
    LET tab == L.editor_tabs[g]
        kids == RemoveAt(tab.children, index + 1)
    IN IF kids = <<>>
       THEN [RemoveContent(L, EditorTab(g)) EXCEPT !.editor_tabs = Without(@, g)]
       ELSE [L EXCEPT !.editor_tabs[g] =
                EditorTabData(kids, Reclamped(tab.active, Len(kids)))]

\* Moving within a group: the removal shifts the indices above the removed
\* slot down by one.
AdjustedIndex(from_index, to_index) ==
    IF to_index > from_index THEN to_index - 1 ELSE to_index

\* MainSplitData::move_editor_tab_child(from, to, from_index, to_index)
MoveEditorTabChild(L, from, to, from_index, to_index) ==
    LET child == L.editor_tabs[from].children[from_index + 1]
    IN IF from = to
       THEN LET rest == RemoveAt(L.editor_tabs[from].children, from_index + 1)
                at == Clamp(AdjustedIndex(from_index, to_index), Len(rest) + 1)
            IN [L EXCEPT !.editor_tabs[from] =
                   EditorTabData(InsertAt(rest, at + 1, child), at)]
       ELSE LET L1 == RemoveChild(L, from, from_index)
                dest == L1.editor_tabs[to]
                at == Clamp(to_index, Len(dest.children) + 1)
            IN [L1 EXCEPT !.editor_tabs[to] =
                   EditorTabData(InsertAt(dest.children, at + 1, child), at)]

\* SplitMoveDirection -> SplitDirection, and whether the moved pane comes first.
DirectionOf(side) == IF side \in {"Up", "Down"} THEN "Horizontal" ELSE "Vertical"
Before(side) == side \in {"Up", "Left"}

\* MainSplitData::move_editor_tab_child_to_new_split(from, from_index, to, side):
\* the child is removed from its group, then inserted as a new pane at the target.
MoveEditorTabChildToNewSplit(L, from, from_index, to, side) ==
    LET child == L.editor_tabs[from].children[from_index + 1]
        L1 == RemoveChild(L, from, from_index)
        g == FreshEditorTab(L1)
        L2 == [L1 EXCEPT !.editor_tabs = With(@, g, EditorTabData(<<child>>, 0))]
    IN InsertPane(L2, to, g, DirectionOf(side), Before(side))

\* The move can be made: the pane is not moved next to itself, and ids are
\* left for the new pane and, if one is needed, the new SplitNode.
CanMoveToNewSplit(L, from, from_index, to, side) ==
    /\ from \in DOMAIN L.editor_tabs
    /\ to \in DOMAIN L.editor_tabs
    /\ from_index < Len(L.editor_tabs[from].children)
    /\ ~(from = to /\ Len(L.editor_tabs[from].children) = 1)
    /\ LET L1 == RemoveChild(L, from, from_index)
           p == CHOOSE s \in ParentsOf(L1, EditorTab(to)) : TRUE
       IN /\ EditorTabIds \ DOMAIN L1.editor_tabs # {}
          /\ L1.splits[p].direction # DirectionOf(side)
                => SplitIds \ DOMAIN L1.splits # {}

\* The children a close-by-kind keeps around the reference child at index k.
KeptByKind(children, k, kind) ==
    IF kind = "CloseOther" THEN <<children[k + 1]>>
    ELSE IF kind = "CloseToLeft" THEN SubSeq(children, k + 1, Len(children))
    ELSE SubSeq(children, 1, k + 1)

\* MainSplitData::editor_tab_child_close_by_kind(editor_tab_id, child, kind)
CloseByKind(L, g, child, kind) ==
    LET tab == L.editor_tabs[g]
        k == (CHOOSE i \in 1 .. Len(tab.children) : tab.children[i] = child) - 1
        kids == KeptByKind(tab.children, k, kind)
    IN [L EXCEPT !.editor_tabs[g] =
           EditorTabData(kids, Reclamped(tab.active, Len(kids)))]


(***************************************************************************)
(* State.                                                                  *)
(***************************************************************************)
VARIABLES
    pc,         \* pc[p]: where the main thread of process p stands
    cli,        \* cli[p]: the parsed command line, [wait, new, paths]
    probe,      \* probe[p]: outcome of get_socket(): none, skipped, ok, failed
    result,     \* result[p]: what try_open_in_existing_process returned
    exitCode,   \* exitCode[p]: -1 while the process has not exited
    elapsed,    \* elapsed[p]: ms the client has waited in recv_timeout
    addr,       \* the listener bound at the channel address ({} if none)
    lpc,        \* lpc[p]: the ListenLocalSocket thread of p
    csrv,       \* csrv[c]: the process connection c is connected to
    c2s,        \* c2s[c]: bytes written by the peer, not yet read
    s2c,        \* s2c[c]: bytes written by the handler to the peer
    popen,      \* popen[c]: the peer's end of the stream is open
    nsent,      \* nsent[c]: frames a foreign peer has written
    hpc,        \* hpc[c]: where the handler thread of connection c stands
    hmsg,       \* hmsg[c]: the message the handler last read
    hsent,      \* hsent[c]: the handler sent the message it last read to the channel
    chan,       \* chan[p]: the sync_channel(1) of process p
    pending,    \* pending[p]: notifications received from chan, not yet seen by the effect
    opened,     \* opened[p]: the paths the effect gave to open_paths
    windows,    \* windows[p]: the windows of process p
    db,         \* the session store
    liveWindows,    \* AppData::windows: WindowId -> the window's current WindowInfo
    active_window,  \* AppData::active_window: the WindowId that last got focus
    app_terminated, \* AppData::app_terminated
    closed,         \* the windows the toolkit has reported closed
    disposed,       \* the windows whose scope has been disposed
    writes,         \* the writes to the session store, oldest first
    splits,         \* MainSplitData::splits: SplitId -> SplitData
    editor_tabs,    \* MainSplitData::editor_tabs: EditorTabId -> EditorTabData
    root_split,     \* MainSplitData::root_split, as the set of this one id
    dragging,       \* the tab being dragged: <<>> or <<[index, editor_tab]>>
    drag_over,      \* drag_over[g]: the drop position shown on pane g, <<>> if none
    tab_size,       \* tab_size[g]: the size of pane g last reported by on_resize
    drag_start,     \* the split border captured by the pointer: <<>> or <<[split, index]>>
    order_index,    \* order_index[c]: the index signal of tab c of an editor tab group
    scope_disposed, \* scope_disposed[n]: how often the scope of tree node n was disposed
    window_tabs,    \* WindowData::window_tabs: the workspace tabs of the window, in order
    tab_index,      \* tab_index[t]: the index signal of workspace tab t
    dragging_index, \* the workspace tab being dragged: <<>> or <<t>>
    argv,           \* argv[p]: <<>>, or <<[new, paths]>> handed on by the process that spawned p
    spawned         \* spawned[p]: the processes that p has spawned

vars == <<pc, cli, probe, result, exitCode, elapsed, addr, lpc, csrv,
          c2s, s2c, popen, nsent, hpc, hmsg, hsent, chan, pending,
          opened, windows, db, liveWindows, active_window, app_terminated, closed,
          disposed,
          writes, splits, editor_tabs, root_split, dragging, drag_over,
          tab_size, drag_start, order_index, scope_disposed, window_tabs,
          tab_index, dragging_index, argv, spawned>>

sessionVars == <<liveWindows, active_window, app_terminated, closed, disposed,
                 writes>>
layoutVars == <<splits, editor_tabs, root_split, order_index, scope_disposed>>
dragVars == <<dragging, drag_over, tab_size, drag_start>>
tabVars == <<window_tabs, tab_index, dragging_index>>
spawnVars == <<argv, spawned>>
uiVars == <<sessionVars, layoutVars, dragVars, tabVars>>
clientVars == <<probe, result, elapsed>>
connVars == <<csrv, c2s, s2c, popen, nsent>>
handlerVars == <<hpc, hmsg, hsent>>
handoffVars == <<chan, pending, opened>>

\* No application is running its event loop yet.
NoSession ==
    /\ liveWindows = <<>>
    /\ active_window = NoWindow
    /\ app_terminated = FALSE
    /\ closed = {}
    /\ disposed = {}
    /\ writes = <<>>

\* A workspace tab as it is opened: the root split holds one pane with one
\* tab, laid out at 400 x 300.
FreshLayout ==
    /\ splits = [s \in {1} |->
                   SplitData("Vertical", <<SplitChild(One, EditorTab(1))>>)]
    /\ editor_tabs = [g \in {1} |-> EditorTabData(<<1>>, 0)]
    /\ root_split = {1}
    /\ order_index = [c \in ChildIds |-> 0]
    /\ scope_disposed = [n \in Nodes |-> 0]

\* A window as it is opened: it shows one workspace tab.
OneTab ==
    /\ window_tabs = <<1>>
    /\ tab_index = [t \in WindowTabIds |-> 0]
    /\ dragging_index = <<>>

\* No process has re-executed itself.
NoSpawn ==
    /\ argv = [p \in Procs |-> <<>>]
    /\ spawned = [p \in Procs |-> {}]

LeafSize == <<400, 300>>

\* No drag is under way.
NoDrag ==
    /\ dragging = <<>>
    /\ drag_over = [g \in EditorTabIds |-> <<>>]
    /\ tab_size = [g \in EditorTabIds |-> LeafSize]
    /\ drag_start = <<>>

NoCli == [wait |-> FALSE, new |-> FALSE, paths |-> <<>>]

\* No process was launched yet.
NoLaunch ==
    /\ pc = [p \in Procs |-> "idle"]
    /\ cli = [p \in Procs |-> NoCli]
    /\ probe = [p \in Procs |-> "none"]
    /\ result = [p \in Procs |-> "none"]
    /\ exitCode = [p \in Procs |-> -1]
    /\ elapsed = [p \in Procs |-> 0]
    /\ addr = {}
    /\ lpc = [p \in Procs |-> "none"]
    /\ csrv = [c \in Conns |-> {}]
    /\ c2s = [c \in Conns |-> <<>>]
    /\ s2c = [c \in Conns |-> <<>>]
    /\ popen = [c \in Conns |-> FALSE]
    /\ nsent = [c \in Conns |-> 0]
    /\ hpc = [c \in Conns |-> "none"]
    /\ hmsg = [c \in Conns |-> RequestMsg]
    /\ hsent = [c \in Conns |-> FALSE]
    /\ chan = [p \in Procs |-> <<>>]
    /\ pending = [p \in Procs |-> <<>>]
    /\ opened = [p \in Procs |-> {}]
    /\ windows = [p \in Procs |-> <<>>]
    /\ db = EmptyDb
    /\ NoSession

Init ==
    /\ NoLaunch
    /\ FreshLayout
    /\ OneTab
    /\ NoSpawn
    /\ NoDrag

(***************************************************************************)
(* launch(): the main thread of a process started with --wait.             *)
(***************************************************************************)
\* LocalSocketStream::connect succeeds iff a live listener is bound there.
CanConnect == \E s \in addr : lpc[s] = "bound"

Take(seq, n) == SubSeq(seq, 1, Min(n, Len(seq)))
Drop(seq, n) == SubSeq(seq, Min(n, Len(seq)) + 1, Len(seq))

Range(seq) == {seq[i] : i \in 1 .. Len(seq)}

\* The server's end of connection c is gone (handler ended or process exited).
ServerClosed(c) == hpc[c] = "done"

\* Mutant: launch() goes on after it has spawned itself with --wait.
AfterSpawnGoesOn == "idle"

\* Where launch() goes once the process spawned with --wait is running: it
\* returns.
AfterSpawn == "exited"

\* if !cli.wait: the process spawns q with its own arguments and --wait,
\* and returns.
Reexec(p, q, new, paths) ==
    /\ pc[p] = "idle"
    /\ argv[p] = <<>>
    /\ q # p
    /\ pc[q] = "idle"
    /\ argv[q] = <<>>
    /\ spawned[q] = {}
    /\ cli' = [cli EXCEPT ![p] = [wait |-> FALSE, new |-> new, paths |-> paths]]
    /\ spawned' = [spawned EXCEPT ![p] = @ \cup {q}]
    /\ argv' = [argv EXCEPT ![q] = <<[new |-> new, paths |-> paths]>>]
    /\ pc' = [pc EXCEPT ![p] = AfterSpawn]
    /\ exitCode' = [exitCode EXCEPT ![p] = IF AfterSpawn = "exited" THEN 0 ELSE -1]
    /\ UNCHANGED <<clientVars, addr, lpc, connVars, handlerVars, handoffVars,
                   windows, db, uiVars>>

\* if !cli.wait and cmd.spawn() is Err: "Failed to launch lapce",
\* std::process::exit(1).
SpawnFail(p, new, paths) ==
    /\ pc[p] = "idle"
    /\ argv[p] = <<>>
    /\ spawned[p] = {}
    /\ cli' = [cli EXCEPT ![p] = [wait |-> FALSE, new |-> new, paths |-> paths]]
    /\ pc' = [pc EXCEPT ![p] = "exited"]
    /\ exitCode' = [exitCode EXCEPT ![p] = 1]
    /\ UNCHANGED <<clientVars, addr, lpc, connVars, handlerVars, handoffVars,
                   windows, db, uiVars, spawnVars>>

\* The command line of a process started with --wait: the one it was
\* spawned with, or any if it was started with --wait from outside.
Handed(p, new, paths) ==
    argv[p] \in {<<>>, <<[new |-> new, paths |-> paths]>>}

\* Mutant: --new does not keep the launch from get_socket().
LaunchNewConnects(p, paths) ==
    /\ pc[p] = "idle"
    /\ Handed(p, TRUE, paths)
    /\ cli' = [cli EXCEPT ![p] = [wait |-> TRUE, new |-> TRUE, paths |-> paths]]
    /\ probe' = [probe EXCEPT ![p] = IF CanConnect THEN "ok" ELSE "failed"]
    /\ csrv' = [csrv EXCEPT ![p] = IF CanConnect THEN addr ELSE @]
    /\ popen' = [popen EXCEPT ![p] = CanConnect]
    /\ c2s' = [c2s EXCEPT ![p] = IF CanConnect THEN WriteMsg(OpenPathsMsg(paths)) ELSE @]
    /\ pc' = [pc EXCEPT ![p] = IF CanConnect THEN "wait" ELSE "db"]
    /\ UNCHANGED <<result, exitCode, elapsed, addr, lpc, s2c, nsent,
                   handlerVars, handoffVars, windows, db, uiVars, spawnVars>>

\* if cli.new: get_socket() is not called at all.
LaunchNew(p, paths) ==
    /\ pc[p] = "idle"
    /\ Handed(p, TRUE, paths)
    /\ cli' = [cli EXCEPT ![p] = [wait |-> TRUE, new |-> TRUE, paths |-> paths]]
    /\ probe' = [probe EXCEPT ![p] = "skipped"]
    /\ pc' = [pc EXCEPT ![p] = "db"]
    /\ UNCHANGED <<result, exitCode, elapsed, addr, lpc, connVars,
                   handlerVars, handoffVars, windows, db, uiVars, spawnVars>>

\* match get_socket() { Err(err) => tracing::error!(..) }
LaunchConnectFail(p, paths) ==
    /\ pc[p] = "idle"
    /\ Handed(p, FALSE, paths)
    /\ ~CanConnect
    /\ cli' = [cli EXCEPT ![p] = [wait |-> TRUE, new |-> FALSE, paths |-> paths]]
    /\ probe' = [probe EXCEPT ![p] = "failed"]
    /\ pc' = [pc EXCEPT ![p] = "db"]
    /\ UNCHANGED <<result, exitCode, elapsed, addr, lpc, connVars,
                   handlerVars, handoffVars, windows, db, uiVars, spawnVars>>

\* Mutant: a failed hand-off falls through to the server start-up.
AfterTryOpenFallsBack(res) == IF res = "err" THEN "db" ELSE "exited"

\* Where launch() goes once try_open_in_existing_process has returned res:
\* it logs an error and returns in every case.
AfterTryOpen(res) == "exited"

\* match get_socket() { Ok(socket) => .. }, then write_msg(&mut socket, msg)?
\* and the reader thread is spawned.
LaunchConnectOk(p, paths) ==
    /\ pc[p] = "idle"
    /\ Handed(p, FALSE, paths)
    /\ CanConnect
    /\ cli' = [cli EXCEPT ![p] = [wait |-> TRUE, new |-> FALSE, paths |-> paths]]
    /\ probe' = [probe EXCEPT ![p] = "ok"]
    /\ csrv' = [csrv EXCEPT ![p] = addr]
    /\ popen' = [popen EXCEPT ![p] = TRUE]
    /\ c2s' = [c2s EXCEPT ![p] = WriteMsg(OpenPathsMsg(paths))]
    /\ pc' = [pc EXCEPT ![p] = "wait"]
    /\ UNCHANGED <<result, exitCode, elapsed, addr, lpc, s2c, nsent,
                   handlerVars, handoffVars, windows, db, uiVars, spawnVars>>

\* &buf[..n] == b"received"
Received(buf) == buf = AckLiteral

\* socket.read(&mut buf) returned: n bytes, or 0 at end of stream.
\* The result is sent to the main thread, which returns from recv_timeout.
ClientRead(p) ==
    /\ pc[p] = "wait"
    /\ Len(s2c[p]) > 0 \/ ServerClosed(p)
    /\ LET res == IF Received(Take(s2c[p], BufSize)) THEN "ok" ELSE "err"
       IN /\ result' = [result EXCEPT ![p] = res]
          /\ pc' = [pc EXCEPT ![p] = AfterTryOpen(res)]
    /\ s2c' = [s2c EXCEPT ![p] = Drop(s2c[p], BufSize)]
    /\ exitCode' = [exitCode EXCEPT ![p] = 0]
    /\ elapsed' = [elapsed EXCEPT ![p] = 0]
    /\ popen' = [popen EXCEPT ![p] = FALSE]
    /\ UNCHANGED <<cli, probe, addr, lpc, csrv, c2s, nsent,
                   handlerVars, handoffVars, windows, db, uiVars, spawnVars>>

\* Mutant: rx.recv() without a timeout.
RecvNeverTimesOut(p) == FALSE

\* rx.recv_timeout(Duration::from_millis(500)) gives up.
RecvTimedOut(p) == elapsed[p] >= AckTimeoutMs

ClientTimeout(p) ==
    /\ pc[p] = "wait"
    /\ RecvTimedOut(p)
    /\ result' = [result EXCEPT ![p] = "err"]
    /\ pc' = [pc EXCEPT ![p] = AfterTryOpen("err")]
    /\ exitCode' = [exitCode EXCEPT ![p] = 0]
    /\ elapsed' = [elapsed EXCEPT ![p] = 0]
    /\ popen' = [popen EXCEPT ![p] = FALSE]
    /\ UNCHANGED <<cli, probe, addr, lpc, csrv, c2s, s2c, nsent,
                   handlerVars, handoffVars, windows, db, uiVars, spawnVars>>

\* Time passes for every client blocked in recv_timeout; it cannot pass
\* beyond a client's deadline before that client has returned.
Tick ==
    /\ \E p \in Procs : pc[p] = "wait"
    /\ \A p \in Procs : pc[p] = "wait" => elapsed[p] < AckTimeoutMs
    /\ elapsed' = [p \in Procs |->
                     IF pc[p] = "wait"
                     THEN Min(elapsed[p] + TickMs, AckTimeoutMs)
                     ELSE elapsed[p]]
    /\ UNCHANGED <<pc, cli, probe, result, exitCode, addr, lpc, connVars,
                   handlerVars, handoffVars, windows, db, uiVars, spawnVars>>

\* Mutant: the session store is opened once the windows are there.
DbFailLate(p) ==
    /\ pc[p] = "running"
    /\ pc' = [pc EXCEPT ![p] = "exited"]
    /\ exitCode' = [exitCode EXCEPT ![p] = 1]
    /\ UNCHANGED <<cli, clientVars, addr, lpc, connVars, handlerVars, handoffVars,
                   windows, db, uiVars, spawnVars>>

\* LapceDb::new() fails: std::process::exit(1).
DbFail(p) ==
    /\ pc[p] = "db"
    /\ pc' = [pc EXCEPT ![p] = "exited"]
    /\ exitCode' = [exitCode EXCEPT ![p] = 1]
    /\ UNCHANGED <<cli, clientVars, addr, lpc, connVars, handlerVars, handoffVars,
                   windows, db, uiVars, spawnVars>>

\* LapceDb::new() succeeds; create_windows; the ListenLocalSocket thread is
\* spawned; app.run() builds the windows.
StartServer(p) ==
    /\ pc[p] = "db"
    /\ windows' = [windows EXCEPT ![p] = CreateWindows(cli[p].paths, db)]
    /\ lpc' = [lpc EXCEPT ![p] = "spawned"]
    /\ pc' = [pc EXCEPT ![p] = "running"]
    /\ UNCHANGED <<cli, clientVars, exitCode, addr, connVars, handlerVars,
                   handoffVars, db, uiVars, spawnVars>>

\* The application quits: the process ends, and with it its windows, its
\* listener, its handler threads and their streams.
ServerQuit(p) ==
    /\ pc[p] = "running"
    /\ pc' = [pc EXCEPT ![p] = "exited"]
    /\ exitCode' = [exitCode EXCEPT ![p] = 0]
    /\ lpc' = [lpc EXCEPT ![p] = "closed"]
    /\ hpc' = [c \in Conns |-> IF csrv[c] = {p} THEN "done" ELSE hpc[c]]
    /\ hmsg' = [c \in Conns |-> IF csrv[c] = {p} THEN RequestMsg ELSE hmsg[c]]
    /\ hsent' = [c \in Conns |-> IF csrv[c] = {p} THEN FALSE ELSE hsent[c]]
    /\ c2s' = [c \in Conns |-> IF csrv[c] = {p} THEN <<>> ELSE c2s[c]]
    /\ windows' = [windows EXCEPT ![p] = <<>>]
    /\ chan' = [chan EXCEPT ![p] = <<>>]
    /\ pending' = [pending EXCEPT ![p] = <<>>]
    /\ opened' = [opened EXCEPT ![p] = {}]
    /\ UNCHANGED <<cli, clientVars, addr, csrv, s2c, popen, nsent, db, uiVars, spawnVars>>

(***************************************************************************)
(* listen_local_socket(): the ListenLocalSocket thread and one handler     *)
(* thread per accepted connection.                                         *)
(***************************************************************************)
Server(c) == CHOOSE s \in csrv[c] : TRUE

\* Mutant: the entry found at the address is left in place.
BoundBesideOld(owners, p) == IF owners = {} THEN {p} ELSE owners

\* The owners of the channel address once p has removed the entry it found
\* there and bound its own listener.
Bound(owners, p) == {p}

\* remove_file(&local_socket) if it exists, then LocalSocketListener::bind.
ListenerBind(p) ==
    /\ pc[p] = "running"
    /\ lpc[p] = "spawned"
    /\ lpc' = [lpc EXCEPT ![p] = "bound"]
    /\ addr' = Bound(addr, p)
    /\ UNCHANGED <<pc, cli, clientVars, exitCode, connVars, handlerVars,
                   handoffVars, windows, db, uiVars, spawnVars>>

\* Directory::local_socket() is None, or bind fails: the thread returns Err.
ListenerFail(p) ==
    /\ pc[p] = "running"
    /\ lpc[p] = "spawned"
    /\ lpc' = [lpc EXCEPT ![p] = "failed"]
    /\ UNCHANGED <<pc, cli, clientVars, exitCode, addr, connVars, handlerVars,
                   handoffVars, windows, db, uiVars, spawnVars>>

\* for stream in socket.incoming().flatten() { std::thread::spawn(..) }
Accept(c) ==
    /\ csrv[c] # {}
    /\ hpc[c] = "none"
    /\ lpc[Server(c)] = "bound"
    /\ hpc' = [hpc EXCEPT ![c] = "read"]
    /\ UNCHANGED <<pc, cli, clientVars, exitCode, addr, lpc, connVars, hmsg,
                   hsent, handoffVars, windows, db, uiVars, spawnVars>>

\* Mutant: the error of a handler thread ends the accept loop.
ListenerDiesOnHandlerError(s) == "failed"

\* The listener of process s after a handler thread of s returned Err:
\* the error stays in that thread.
ListenerAfterHandlerError(s) == lpc[s]

\* Mutant: a read error is acknowledged like an unhandled message.
AfterReadAcksError(r) ==
    IF r.status = "ok" /\ r.msg.kind = KindNotification THEN "send" ELSE "ack"

\* Where the handler goes with what read_msg returned.
AfterRead(r) ==
    IF r.status = "err"
    THEN "done"
    ELSE IF r.msg.kind = KindNotification
         THEN "send"
         ELSE "ack"

\* let msg: Option<CoreMessage> = lapce_rpc::stdio::read_msg(&mut reader)?;
\* blocks while the stream is open and empty; on Err the thread returns and
\* the stream is dropped.
HandlerRead(c) ==
    /\ hpc[c] = "read"
    /\ Len(c2s[c]) > 0 \/ ~popen[c]
    /\ LET r == ReadMsg(c2s[c])
       IN /\ c2s' = [c2s EXCEPT ![c] = IF r.status = "err" THEN <<>> ELSE r.rest]
          /\ hmsg' = [hmsg EXCEPT ![c] = r.msg]
          /\ hpc' = [hpc EXCEPT ![c] = AfterRead(r)]
          /\ lpc' = IF r.status = "err"
                    THEN [lpc EXCEPT ![Server(c)] = ListenerAfterHandlerError(Server(c))]
                    ELSE lpc
    /\ UNCHANGED <<pc, cli, clientVars, exitCode, addr, csrv, s2c, popen, nsent,
                   hsent, handoffVars, windows, db, uiVars, spawnVars>>

\* Mutant: the handler thread calls open_paths itself.
HandlerOpensDirectly(s, note) ==
    [chan |-> chan[s], opened |-> opened[s] \cup Range(note.paths)]

\* What tx.send(msg) does to the state of process s: the notification is
\* put on the hand-off channel.
HandlerDispatch(s, note) ==
    [chan |-> Append(chan[s], note), opened |-> opened[s]]

\* if let Some(RpcMessage::Notification(msg)) = msg { tx.send(msg)?; }
\* SyncSender::send blocks while the channel is full.
HandlerSend(c) ==
    /\ hpc[c] = "send"
    /\ Len(chan[Server(c)]) < ChanCap
    /\ LET s == Server(c)
           d == HandlerDispatch(s, [from |-> c, paths |-> hmsg[c].paths])
       IN /\ chan' = [chan EXCEPT ![s] = d.chan]
          /\ opened' = [opened EXCEPT ![s] = d.opened]
    /\ hsent' = [hsent EXCEPT ![c] = TRUE]
    /\ hpc' = [hpc EXCEPT ![c] = "ack"]
    /\ UNCHANGED <<pc, cli, clientVars, exitCode, addr, lpc, connVars, hmsg,
                   pending, windows, db, uiVars, spawnVars>>

\* stream_ref.write_all(b"received"); stream_ref.flush(); errors are logged.
HandlerAck(c) ==
    /\ hpc[c] = "ack"
    /\ s2c' = [s2c EXCEPT ![c] = IF popen[c] THEN @ \o AckLiteral ELSE @]
    /\ hsent' = [hsent EXCEPT ![c] = FALSE]
    /\ hpc' = [hpc EXCEPT ![c] = "read"]
    /\ UNCHANGED <<pc, cli, clientVars, exitCode, addr, lpc, csrv, c2s, popen,
                   nsent, hmsg, handoffVars, windows, db, uiVars, spawnVars>>

(***************************************************************************)
(* The hand-off channel: create_signal_from_channel(rx) receives on a      *)
(* thread of its own and queues each value for the UI thread; the effect   *)
(* on the signal runs on the UI thread.                                    *)
(***************************************************************************)
\* Mutant: the receiving thread waits until the UI thread has taken the
\* value it received before.
RelayWaitsForUi(s) == Len(chan[s]) > 0 /\ Len(pending[s]) = 0

\* The receiving thread can take a value off the channel.
RelayReady(s) == Len(chan[s]) > 0

\* let notification = create_signal_from_channel(rx);
Relay(s) ==
    /\ pc[s] = "running"
    /\ RelayReady(s)
    /\ pending' = [pending EXCEPT ![s] = Append(@, Head(chan[s]))]
    /\ chan' = [chan EXCEPT ![s] = Tail(@)]
    /\ UNCHANGED <<pc, cli, clientVars, exitCode, addr, lpc, connVars, handlerVars,
                   opened, windows, db, uiVars, spawnVars>>

\* create_effect: if let Some(OpenPaths { paths }) = notification.get() {
\*   if let Some(window_tab) = app_data.active_window_tab() { open_paths } }
UiOpenPaths(s) ==
    /\ pc[s] = "running"
    /\ Len(pending[s]) > 0
    /\ pending' = [pending EXCEPT ![s] = Tail(@)]
    /\ opened' = [opened EXCEPT ![s] =
                     IF Len(windows[s]) > 0
                     THEN @ \cup Range(Head(pending[s]).paths)
                     ELSE @]
    /\ UNCHANGED <<pc, cli, clientVars, exitCode, addr, lpc, connVars, handlerVars,
                   chan, windows, db, uiVars, spawnVars>>

(***************************************************************************)
(* Other local peers of the channel address.                               *)
(***************************************************************************)
ForeignFrames ==
    {WriteMsg(OpenPathsMsg(<<File2>>)), WriteMsg(RequestMsg), MalformedFrame}

ForeignConnect(f) ==
    /\ csrv[f] = {}
    /\ CanConnect
    /\ csrv' = [csrv EXCEPT ![f] = addr]
    /\ popen' = [popen EXCEPT ![f] = TRUE]
    /\ UNCHANGED <<pc, cli, clientVars, exitCode, addr, lpc, c2s, s2c, nsent,
                   handlerVars, handoffVars, windows, db, uiVars, spawnVars>>

ForeignWrite(f, frame) ==
    /\ popen[f]
    /\ ~ServerClosed(f)
    /\ nsent[f] < MaxForeignMsgs
    /\ c2s' = [c2s EXCEPT ![f] = @ \o frame]
    /\ nsent' = [nsent EXCEPT ![f] = @ + 1]
    /\ UNCHANGED <<pc, cli, clientVars, exitCode, addr, lpc, csrv, s2c, popen,
                   handlerVars, handoffVars, windows, db, uiVars, spawnVars>>

ForeignClose(f) ==
    /\ popen[f]
    /\ popen' = [popen EXCEPT ![f] = FALSE]
    /\ UNCHANGED <<pc, cli, clientVars, exitCode, addr, lpc, csrv, c2s, s2c, nsent,
                   handlerVars, handoffVars, windows, db, uiVars, spawnVars>>

(***************************************************************************)
(* Specifications.                                                         *)
(***************************************************************************)
Next ==
    \/ \E p \in Procs, paths \in LaunchArgs :
          \/ LaunchNew(p, paths)
          \/ LaunchConnectFail(p, paths)
          \/ LaunchConnectOk(p, paths)
    \/ \E p \in Procs :
          \/ ClientRead(p)
          \/ ClientTimeout(p)
          \/ DbFail(p)
          \/ StartServer(p)
          \/ ServerQuit(p)
          \/ ListenerBind(p)
          \/ ListenerFail(p)
          \/ Relay(p)
          \/ UiOpenPaths(p)
    \/ Tick
    \/ \E c \in Conns :
          \/ Accept(c)
          \/ HandlerRead(c)
          \/ HandlerSend(c)
          \/ HandlerAck(c)
    \/ \E f \in Foreign :
          \/ ForeignConnect(f)
          \/ ForeignClose(f)
          \/ \E frame \in ForeignFrames : ForeignWrite(f, frame)

Spec == Init /\ [][Next]_vars

\* Launches from outside, with and without --wait, and what each process
\* does from there; no foreign peer writes to the channel address.
LaunchNext ==
    \/ \E p \in Procs, paths \in LaunchArgs :
          \/ LaunchNew(p, paths)
          \/ LaunchConnectFail(p, paths)
          \/ LaunchConnectOk(p, paths)
          \/ \E new \in BOOLEAN :
                \/ SpawnFail(p, new, paths)
                \/ \E q \in Procs : Reexec(p, q, new, paths)
    \/ \E p \in Procs :
          \/ ClientRead(p)
          \/ ClientTimeout(p)
          \/ DbFail(p)
          \/ StartServer(p)
          \/ ServerQuit(p)
          \/ ListenerBind(p)
          \/ ListenerFail(p)
          \/ Relay(p)
          \/ UiOpenPaths(p)
    \/ Tick
    \/ \E c \in Conns :
          \/ Accept(c)
          \/ HandlerRead(c)
          \/ HandlerSend(c)
          \/ HandlerAck(c)

LaunchSpec == Init /\ [][LaunchNext]_vars

\* The timer of recv_timeout runs and the blocked main thread is woken by it.
FairSpec ==
    /\ Spec
    /\ WF_vars(Tick)
    /\ \A p \in Procs : WF_vars(ClientTimeout(p))

\* Every thread that can run gets to run: the handler threads, each at the
\* step it has come to, and the thread that receives from the hand-off
\* channel.
HandlerStep(c) == HandlerRead(c) \/ HandlerSend(c) \/ HandlerAck(c)

HandlerFairSpec ==
    /\ Spec
    /\ \A c \in Conns : WF_vars(HandlerStep(c))
    /\ \A p \in Procs : WF_vars(Relay(p))

\* Start-up of one process against every session store and command line.
StartupInit ==
    /\ pc = [p \in Procs |-> "idle"]
    /\ cli = [p \in Procs |-> NoCli]
    /\ probe = [p \in Procs |-> "none"]
    /\ result = [p \in Procs |-> "none"]
    /\ exitCode = [p \in Procs |-> -1]
    /\ elapsed = [p \in Procs |-> 0]
    /\ addr = {}
    /\ lpc = [p \in Procs |-> "none"]
    /\ csrv = [c \in Conns |-> {}]
    /\ c2s = [c \in Conns |-> <<>>]
    /\ s2c = [c \in Conns |-> <<>>]
    /\ popen = [c \in Conns |-> FALSE]
    /\ nsent = [c \in Conns |-> 0]
    /\ hpc = [c \in Conns |-> "none"]
    /\ hmsg = [c \in Conns |-> RequestMsg]
    /\ hsent = [c \in Conns |-> FALSE]
    /\ chan = [p \in Procs |-> <<>>]
    /\ pending = [p \in Procs |-> <<>>]
    /\ opened = [p \in Procs |-> {}]
    /\ windows = [p \in Procs |-> <<>>]
    /\ db \in DbStates
    /\ NoSession
    /\ FreshLayout
    /\ OneTab
    /\ NoSpawn
    /\ NoDrag

StartupNext ==
    \/ \E paths \in AllArgs :
          \/ LaunchNew(1, paths)
          \/ LaunchConnectFail(1, paths)
    \/ StartServer(1)
    \/ DbFail(1)

StartupSpec == StartupInit /\ [][StartupNext]_vars

(***************************************************************************)
(* The session: AppData::windows, the AppCommands and the termination      *)
(* event of a running application, and the next start-up.                  *)
(***************************************************************************)
WindowIds == 1 .. MaxWindows

\* The orders in which the entries of a map of windows may be iterated.
Orders(S) ==
    {o \in [1 .. Cardinality(S) -> S] :
        \A i, j \in 1 .. Cardinality(S) : o[i] = o[j] => i = j}

\* AppInfo { windows: windows.iter().map(|(_, w)| w.info()).collect() }
AppInfoOf(wins, order) == [i \in 1 .. Len(order) |-> wins[order[i]]]

\* The persisted layout schema: WorkspaceDescriptor { kind, path, last_open }.
WorkspaceKinds == <<"Local", "RemoteSSH", "RemoteWSL">>
KindIndex(kind) == CHOOSE i \in 1 .. Len(WorkspaceKinds) : WorkspaceKinds[i] = kind

SerializeWorkspace(ws) == <<KindIndex(ws.kind), ws.path, ws.last_open>>

\* WindowRecord { size: {w,h}, pos: {x,y}, maximised, tabs: { active_tab, workspaces } }
SerializeWindow(info) ==
    <<info.size[1], info.size[2], info.pos[1], info.pos[2],
      IF info.maximised THEN 1 ELSE 0,
      info.tabs.active_tab, Len(info.tabs.workspaces)>>
    \o Flatten([i \in 1 .. Len(info.tabs.workspaces) |->
                   SerializeWorkspace(info.tabs.workspaces[i])])

\* AppSnapshot { windows: [WindowRecord] }
SerializeApp(infos) ==
    <<Len(infos)>> \o Flatten([i \in 1 .. Len(infos) |-> SerializeWindow(infos[i])])

DeserializeWorkspace(data) ==
    [kind |-> WorkspaceKinds[data[1]], path |-> data[2], last_open |-> data[3]]

WorkspaceLen == Len(SerializeWorkspace(DefaultWorkspace))
WindowHeadLen == Len(SerializeWindow(WindowInfo(DefaultSize, PointZero, FALSE, 0, <<>>)))

\* One WindowRecord from the head of data, and what follows it.
DeserializeWindow(data) ==
    LET n == data[WindowHeadLen]
        ws == [i \in 1 .. n |->
                 DeserializeWorkspace(
                     SubSeq(data, WindowHeadLen + (i - 1) * WorkspaceLen + 1,
                            WindowHeadLen + i * WorkspaceLen))]
    IN [info |-> WindowInfo(<<data[1], data[2]>>, <<data[3], data[4]>>,
                            data[5] = 1, data[6], ws),
        rest |-> SubSeq(data, WindowHeadLen + n * WorkspaceLen + 1, Len(data))]

RECURSIVE DeserializeWindows(_, _)
DeserializeWindows(data, n) ==
    IF n = 0
    THEN <<>>
    ELSE LET first == DeserializeWindow(data)
         IN <<first.info>> \o DeserializeWindows(first.rest, n - 1)

DeserializeApp(data) == DeserializeWindows(Tail(data), data[1])

\* LapceDb::insert_app and LapceDb::save_app: the AppInfo of the open windows
\* is written to the store, and each window's info as the last window; with
\* no window open nothing is written.
PersistApp(store, infos) ==
    IF infos = <<>>
    THEN store
    ELSE LET read == DeserializeApp(SerializeApp(infos))
         IN Db(TRUE, read, TRUE, read[Len(read)])

\* One write to the store: the handler that made it, whether it ran for the
\* last open window or after the termination event, and the windows written.
WriteEntry(cause, shutdown, order, infos) ==
    [cause |-> cause, shutdown |-> shutdown, ids |-> order, windows |-> infos]

Logged(log, cause, shutdown, order, infos) ==
    IF infos = <<>>
    THEN log
    ELSE Append(log, WriteEntry(cause, shutdown, order, infos))

\* The state once launch() runs the application with the windows that
\* create_windows planned: app_view has put each into AppData::windows.
SessionInit ==
    \E store \in DbStates, paths \in LaunchArgs \cup {<<>>} :
        LET planned == CreateWindows(paths, store)
        IN /\ pc = [p \in Procs |-> IF p = 1 THEN "running" ELSE "idle"]
           /\ cli = [p \in Procs |-> IF p = 1
                                      THEN [wait |-> TRUE, new |-> FALSE, paths |-> paths]
                                      ELSE NoCli]
           /\ probe = [p \in Procs |-> IF p = 1 THEN "failed" ELSE "none"]
           /\ result = [p \in Procs |-> "none"]
           /\ exitCode = [p \in Procs |-> -1]
           /\ elapsed = [p \in Procs |-> 0]
           /\ addr = {}
           /\ lpc = [p \in Procs |-> IF p = 1 THEN "spawned" ELSE "none"]
           /\ csrv = [c \in Conns |-> {}]
           /\ c2s = [c \in Conns |-> <<>>]
           /\ s2c = [c \in Conns |-> <<>>]
           /\ popen = [c \in Conns |-> FALSE]
           /\ nsent = [c \in Conns |-> 0]
           /\ hpc = [c \in Conns |-> "none"]
           /\ hmsg = [c \in Conns |-> RequestMsg]
           /\ hsent = [c \in Conns |-> FALSE]
           /\ chan = [p \in Procs |-> <<>>]
           /\ pending = [p \in Procs |-> <<>>]
           /\ opened = [p \in Procs |-> {}]
           /\ windows = [p \in Procs |-> IF p = 1 THEN planned ELSE <<>>]
           /\ db = store
           /\ liveWindows = [i \in 1 .. Len(planned) |-> planned[i].info]
           /\ active_window = NoWindow
           /\ app_terminated = FALSE
           /\ closed = {}
           /\ disposed = {}
           /\ writes = <<>>
           /\ FreshLayout
           /\ OneTab
           /\ NoSpawn
           /\ NoDrag

coordVars == <<pc, cli, probe, result, exitCode, elapsed, addr, lpc, csrv, c2s,
               s2c, popen, nsent, hpc, hmsg, hsent, chan, pending, opened,
               windows, argv, spawned>>

\* Mutant: the active window is the one that last got focus, open or not.
ActiveWindowFocused(wins, active) == {active}

\* AppData::active_window(): the window that last got focus if it is open,
\* else the first of the open windows as the map iterates them, which may
\* be any of them; None (no window) if none is open.
ActiveWindow(wins, active) ==
    IF active \in DOMAIN wins THEN {active} ELSE DOMAIN wins

\* AppCommand::WindowGotFocus(window_id), sent by an open window
WindowGotFocus(w) ==
    /\ pc[1] = "running"
    /\ w \in DOMAIN liveWindows
    /\ active_window # w
    /\ active_window' = w
    /\ UNCHANGED <<coordVars, tabVars, layoutVars, dragVars, db, liveWindows,
                   app_terminated, closed, disposed, writes>>

\* AppData::new_window: the size of the active window, its position moved
\* by (50, 50).
NewWindowInfo(active, folder) ==
    WindowInfo(active.size,
               <<active.pos[1] + WindowOffset, active.pos[2] + WindowOffset>>,
               FALSE, 0, <<Workspace(folder)>>)

\* AppCommand::NewWindow { folder }: floem gives the window a fresh id and
\* app_view inserts it into AppData::windows.
NewWindow(folder) ==
    LET id == Cardinality(DOMAIN liveWindows \cup closed) + 1
    IN /\ pc[1] = "running"
       /\ ~app_terminated
       /\ DOMAIN liveWindows # {}
       /\ id \in WindowIds
       /\ \E a \in ActiveWindow(liveWindows, active_window) :
             liveWindows' = [w \in DOMAIN liveWindows \cup {id} |->
                               IF w = id
                               THEN NewWindowInfo(liveWindows[a], folder)
                               ELSE liveWindows[w]]
       /\ UNCHANGED <<coordVars, tabVars, layoutVars, dragVars, db, active_window,
                    app_terminated, closed, disposed, writes>>

\* AppCommand::SaveApp
SaveApp ==
    /\ pc[1] = "running"
    /\ ~app_terminated
    /\ DOMAIN liveWindows # {}
    /\ Len(writes) < MaxWrites
    /\ \E order \in Orders(DOMAIN liveWindows) :
          LET infos == AppInfoOf(liveWindows, order)
          IN /\ db' = PersistApp(db, infos)
             /\ writes' = Logged(writes, "SaveApp", FALSE, order, infos)
    /\ UNCHANGED <<coordVars, tabVars, layoutVars, dragVars, liveWindows,
                   active_window, app_terminated, closed, disposed>>

\* Mutant: a window closed after the termination event is handled like any other.
SkipWindowClosedNever(terminated) == FALSE

\* if self.app_terminated.get_untracked() { return; }
SkipWindowClosed(terminated) == terminated

\* if self.windows.with_untracked(|w| w.len()) == 1 { db.insert_app(..) }
InsertOnClose(count) == count = 1

\* AppCommand::WindowClosed(window_id), sent when the toolkit has closed the
\* window: insert_app for the last window, then the window is removed from
\* AppData::windows and its scope disposed, then save_app.
WindowClosed(w) ==
    /\ pc[1] = "running"
    /\ w \in DOMAIN liveWindows
    /\ w \notin closed
    /\ closed' = closed \cup {w}
    /\ IF SkipWindowClosed(app_terminated)
       THEN UNCHANGED <<liveWindows, disposed, db, writes>>
       ELSE LET count == Cardinality(DOMAIN liveWindows)
                rest == [v \in DOMAIN liveWindows \ {w} |-> liveWindows[v]]
                ending == count = 1 \/ app_terminated
            IN /\ liveWindows' = rest
               /\ disposed' = disposed \cup {w}
               /\ \E before \in Orders(DOMAIN liveWindows),
                     after \in Orders(DOMAIN rest) :
                     LET all == IF InsertOnClose(count)
                                THEN AppInfoOf(liveWindows, before)
                                ELSE <<>>
                         left == AppInfoOf(rest, after)
                     IN /\ db' = PersistApp(PersistApp(db, all), left)
                        /\ writes' = Logged(Logged(writes, "WindowClosed", ending,
                                                   before, all),
                                            "WindowClosed", ending, after, left)
    /\ UNCHANGED <<coordVars, tabVars, layoutVars, dragVars, active_window,
                   app_terminated>>

\* floem::AppEvent::WillTerminate
WillTerminate ==
    /\ pc[1] = "running"
    /\ ~app_terminated
    /\ app_terminated' = TRUE
    /\ \E order \in Orders(DOMAIN liveWindows) :
          LET infos == AppInfoOf(liveWindows, order)
          IN /\ db' = PersistApp(db, infos)
             /\ writes' = Logged(writes, "WillTerminate", TRUE, order, infos)
    /\ UNCHANGED <<coordVars, tabVars, layoutVars, dragVars, liveWindows,
                   active_window, closed, disposed>>

\* The application has shut down: its last window closed, or it was told to
\* terminate.
ShutDown == app_terminated \/ DOMAIN liveWindows = {}

\* The next start-up, without paths: process 2 is launched once process 1,
\* whose session the actions above are, has shut down; it builds its windows
\* from the store.
Relaunch ==
    LET planned == CreateWindows(<<>>, db)
    IN /\ pc[1] = "running"
       /\ pc[2] = "idle"
       /\ ShutDown
       /\ pc' = [pc EXCEPT ![1] = "exited", ![2] = "running"]
       /\ exitCode' = [exitCode EXCEPT ![1] = 0]
       /\ lpc' = [lpc EXCEPT ![1] = "closed", ![2] = "spawned"]
       /\ probe' = [probe EXCEPT ![2] = "failed"]
       /\ windows' = [windows EXCEPT ![1] = <<>>, ![2] = planned]
       /\ liveWindows' = [i \in 1 .. Len(planned) |-> planned[i].info]
       /\ active_window' = NoWindow
       /\ app_terminated' = FALSE
       /\ closed' = {}
       /\ disposed' = {}
       /\ writes' = <<>>
       /\ UNCHANGED <<cli, result, elapsed, addr, connVars, handlerVars,
                      handoffVars, db, layoutVars, dragVars, tabVars, spawnVars>>

SessionNext ==
    \/ \E folder \in {0, Dir1.path} : NewWindow(folder)
    \/ SaveApp
    \/ \E w \in WindowIds : WindowClosed(w)
    \/ \E w \in WindowIds : WindowGotFocus(w)
    \/ WillTerminate
    \/ Relaunch

SessionSpec == SessionInit /\ [][SessionNext]_vars

(***************************************************************************)
(* Hand-offs to a server whose windows are being closed.                   *)
(***************************************************************************)
\* AppCommand::WindowClosed for the window at place i of the windows of
\* server p: insert_app for the last window, the window is removed from
\* AppData::windows, then save_app.  Whether the application goes on without
\* a window is the platform's matter: it may quit or stay (AppEvent::Reopen).
AppWindowClosed(p, i) ==
    /\ pc[p] = "running"
    /\ i \in 1 .. Len(windows[p])
    /\ ~SkipWindowClosed(app_terminated)
    /\ LET count == Len(windows[p])
           infos == [j \in 1 .. count |-> windows[p][j].info]
           rest == RemoveAt(windows[p], i)
           left == [j \in 1 .. Len(rest) |-> rest[j].info]
       IN /\ windows' = [windows EXCEPT ![p] = rest]
          /\ \E before \in Orders(1 .. count), after \in Orders(1 .. Len(rest)) :
                db' = PersistApp(
                          PersistApp(db, IF InsertOnClose(count)
                                         THEN AppInfoOf(infos, before) ELSE <<>>),
                          AppInfoOf(left, after))
    /\ UNCHANGED <<pc, cli, clientVars, exitCode, addr, lpc, connVars, handlerVars,
                   handoffVars, uiVars, spawnVars>>

HandoffNext ==
    \/ \E p \in Procs, paths \in LaunchArgs :
          \/ LaunchNew(p, paths)
          \/ LaunchConnectFail(p, paths)
          \/ LaunchConnectOk(p, paths)
    \/ \E p \in Procs :
          \/ ClientRead(p)
          \/ ClientTimeout(p)
          \/ StartServer(p)
          \/ ServerQuit(p)
          \/ ListenerBind(p)
          \/ Relay(p)
          \/ UiOpenPaths(p)
          \/ \E i \in 1 .. MaxWindows : AppWindowClosed(p, i)
    \/ Tick
    \/ \E c \in Conns :
          \/ Accept(c)
          \/ HandlerRead(c)
          \/ HandlerSend(c)
          \/ HandlerAck(c)
    \/ \E f \in Foreign :
          \/ ForeignConnect(f)
          \/ ForeignClose(f)
          \/ ForeignWrite(f, WriteMsg(OpenPathsMsg(<<File2>>)))

HandoffSpec == Init /\ [][HandoffNext]_vars


(***************************************************************************)
(* The editor tab panes of a workspace tab: dragging a tab over a pane and  *)
(* dropping it, the tab headers, the pane buttons and the tab menu, and the *)
(* resize borders of a split.  Sizes and pointer positions are pixels.      *)
(***************************************************************************)
CurrentLayout == Layout(splits, editor_tabs, root_split)

\* The SplitNodes named by the children of the SplitNodes S, those named by
\* their children, and so on, n levels down.
ChildSplits(L, s) ==
    {L.splits[s].children[i].content.id :
        i \in {j \in 1 .. Len(L.splits[s].children) :
                  L.splits[s].children[j].content.kind = "Split"}}
RECURSIVE Below(_, _, _)
Below(L, S, n) ==
    IF n = 0 \/ S = {} THEN {}
    ELSE LET next == UNION {ChildSplits(L, s) : s \in S \cap DOMAIN L.splits}
         IN next \cup Below(L, next, n - 1)

\* The SplitNodes reachable from the root, and the parent slots of a content
\* among them.
ReachableSplits(L) == (L.root \cup Below(L, L.root, MaxSplits + 1)) \cap DOMAIN L.splits
Slots(L, content) ==
    {slot \in ReachableSplits(L) \X (1 .. MaxGroups + MaxSplits) :
        /\ slot[2] <= Len(L.splits[slot[1]].children)
        /\ L.splits[slot[1]].children[slot[2]].content = content}

OpenTabs == DOMAIN editor_tabs

\* The place of a child in its group, counted from 0: the value of its index
\* signal, which the header list keeps equal to the child's position.
IndexOf(children, child) ==
    (CHOOSE i \in 1 .. Len(children) : children[i] = child) - 1

AllChildren(L) ==
    UNION {{L.editor_tabs[g].children[i] : i \in 1 .. Len(L.editor_tabs[g].children)} :
             g \in DOMAIN L.editor_tabs}

FreshChild(L) == CHOOSE c \in ChildIds \ AllChildren(L) :
                     \A d \in ChildIds \ AllChildren(L) : c <= d

\* MainSplitData::split(direction, editor_tab_id): a new pane after the
\* target, showing a copy of the target's active tab.
Split(L, g, direction) ==
    LET new == FreshEditorTab(L)
        L1 == [L EXCEPT !.editor_tabs =
                  With(@, new, EditorTabData(<<FreshChild(L)>>, 0))]
    IN InsertPane(L1, g, new, direction, FALSE)

CanSplit(L, g, direction) ==
    /\ ChildIds \ AllChildren(L) # {}
    /\ EditorTabIds \ DOMAIN L.editor_tabs # {}
    /\ LET p == CHOOSE s \in ParentsOf(L, EditorTab(g)) : TRUE
       IN L.splits[p].direction # direction => SplitIds \ DOMAIN L.splits # {}

\* MainSplitData::editor_tab_close(editor_tab_id): every tab of the group is
\* closed, and the group leaves the tree.
CloseEditorTab(L, g) ==
    [RemoveContent(L, EditorTab(g)) EXCEPT !.editor_tabs = Without(@, g)]

\* The resize border that holds the pointer, if its split still shows it.
KeepBorder(L, captured) ==
    IF /\ captured # <<>>
       /\ captured[1] \in DOMAIN L.splits
       /\ captured[2] < Len(L.splits[captured[1]].children)
    THEN captured ELSE <<>>

\* Mutant: the list is read without setting any index signal.
ItemsStale(children, index) == index

\* The items closure of a tab list (the tabs of an editor tab group, the
\* workspace tabs of a window): every index signal that differs from the
\* position of its tab is set to it.
Items(children, index) ==
    [c \in DOMAIN index |->
        IF \E i \in 1 .. Len(children) : children[i] = c
        THEN IndexOf(children, c)
        ELSE index[c]]

\* The header of every group of the tree reads its list; a tab that is in
\* no group has no index signal (0).
HeaderItems(L, index) ==
    [c \in ChildIds |->
        IF \E g \in DOMAIN L.editor_tabs : c \in Range(L.editor_tabs[g].children)
        THEN LET g == CHOOSE h \in DOMAIN L.editor_tabs :
                          c \in Range(L.editor_tabs[h].children)
             IN Items(L.editor_tabs[g].children, index)[c]
        ELSE 0]

\* The id of a node is in its map (MainSplitData::editor_tabs, ::splits).
Registered(L, n) ==
    IF n.kind = "EditorTab" THEN n.id \in DOMAIN L.editor_tabs
    ELSE n.id \in DOMAIN L.splits

\* Mutant: the hook disposes the scope whatever the map holds.
CleanupAlways(L, n) == TRUE

\* Mutant: the hook returns without disposing the scope.
CleanupNever(L, n) == FALSE

\* on_cleanup of the view of an editor tab group or of a split list: TRUE
\* iff the scope is disposed, which it is unless the id is still in its map.
Cleanup(L, n) == ~Registered(L, n)

\* The nodes a tree shows: the root split and what is below it.
Shown(L) ==
    {SplitOf(s) : s \in ReachableSplits(L)} \cup
    UNION {{L.splits[s].children[i].content : i \in 1 .. Len(L.splits[s].children)} :
             s \in ReachableSplits(L)}

\* split_list keys the items of its dyn_stack by content.id(): the view of a
\* child is removed when the child is no longer in the list of that split.
Unkeyed(L, L2) ==
    {n \in Shown(L) : ParentsOf(L, n) # {} /\ ParentsOf(L, n) # ParentsOf(L2, n)}

\* The nodes shown inside the views of the nodes N, k levels down.
RECURSIVE Inside(_, _, _)
Inside(L, N, k) ==
    IF k = 0 \/ N = {} THEN {}
    ELSE LET kids == {c \in Shown(L) :
                        \E s \in ParentsOf(L, c) : SplitOf(s) \in N}
         IN kids \cup Inside(L, kids, k - 1)

\* The views removed when the tree L becomes L2, each with the views in it.
TornDown(L, L2) ==
    LET gone == Unkeyed(L, L2)
    IN gone \cup Inside(L, gone, MaxSplits)

\* The disposals counted once the hooks of the removed views have run; a
\* node that is new in L2 has a scope of its own that nothing disposed.
Disposals(L, L2, count) ==
    LET torn == TornDown(L, L2)
    IN [n \in Nodes |->
          IF n \in torn /\ Cleanup(L2, n) THEN Min(count[n] + 1, 2)
          ELSE IF Registered(L2, n) /\ ~Registered(L, n) THEN 0
          ELSE count[n]]

\* A change of the tree: the views of the panes that left it are gone, and
\* with them their signals; the headers read their lists again.
Becomes(L) ==
    /\ splits' = L.splits
    /\ editor_tabs' = L.editor_tabs
    /\ root_split' = L.root
    /\ order_index' = HeaderItems(L, order_index)
    /\ scope_disposed' = Disposals(CurrentLayout, L, scope_disposed)
    /\ drag_over' = [g \in EditorTabIds |->
                       IF g \in DOMAIN L.editor_tabs THEN drag_over[g] ELSE <<>>]
    /\ drag_start' = KeepBorder(L, drag_start)

\* DragOverPosition of a pointer at pos over a pane of the given size.
\* x < w / 4.0 is 4 x < w and x > w * 3.0 / 4.0 is 4 x > 3 w: both sides are
\* halved twice exactly.
DragOverPosReversed(pos, size) ==
    IF 4 * pos[2] < size[2] THEN "Top"
    ELSE IF 4 * pos[2] > 3 * size[2] THEN "Bottom"
    ELSE IF 4 * pos[1] < size[1] THEN "Left"
    ELSE IF 4 * pos[1] > 3 * size[1] THEN "Right"
    ELSE "Middle"

DragOverPos(pos, size) ==
    IF 4 * pos[1] < size[1] THEN "Left"
    ELSE IF 4 * pos[1] > 3 * size[1] THEN "Right"
    ELSE IF 4 * pos[2] < size[2] THEN "Top"
    ELSE IF 4 * pos[2] > 3 * size[2] THEN "Bottom"
    ELSE "Middle"

\* The pointer positions of the examples of a 400 x 300 pane.
ExamplePoints == {<<50, 150>>, <<390, 150>>, <<200, 10>>, <<200, 290>>, <<200, 150>>}

\* Pointer positions on a grid over the pane and past its edges, and the
\* sizes a pane is laid out at (Size::ZERO before its first layout).
PointerGrid ==
    ExamplePoints \cup
    ({0, 50, 99, 100, 101, 200, 299, 300, 301, 400} \X {0, 50, 74, 75, 76, 150, 224, 225, 226, 300})
PaneSizes == {0, 300, 400, 401} \X {0, 299, 300, 400}

\* There is one pointer: while it drags a tab or holds a resize border it
\* presses nothing else.
PointerFree == dragging = <<>> /\ drag_start = <<>> /\ dragging_index = <<>>

\* DragStart on the header of the tab at index i of group g
DragStart(g, i) ==
    /\ g \in OpenTabs
    /\ i < Len(editor_tabs[g].children)
    /\ PointerFree
    /\ dragging' = <<editor_tabs[g].children[i + 1], g>>
    /\ UNCHANGED <<coordVars, tabVars, db, sessionVars, layoutVars,
                   drag_over, tab_size, drag_start>>

\* PointerDown, not the middle button, on the header of the tab at index i
\* of group g: the tab becomes the active one of its group.
TabPointerDown(g, i) ==
    /\ g \in OpenTabs
    /\ i < Len(editor_tabs[g].children)
    /\ PointerFree
    /\ editor_tabs' = [editor_tabs EXCEPT
          ![g].active = order_index[editor_tabs[g].children[i + 1]]]
    /\ editor_tabs' # editor_tabs
    /\ UNCHANGED <<coordVars, tabVars, db, sessionVars, splits, root_split,
                   order_index, scope_disposed, dragVars>>

\* DragEnd on the header the drag began on
DragEnd ==
    /\ dragging # <<>>
    /\ dragging' = <<>>
    /\ UNCHANGED <<coordVars, tabVars, db, sessionVars, layoutVars,
                   drag_over, tab_size, drag_start>>

\* DragOver on pane g with the pointer at pos; the pointer is over one pane
\* at a time.
DragOver(g, pos) ==
    /\ g \in OpenTabs
    /\ dragging # <<>>
    /\ \A h \in EditorTabIds \ {g} : drag_over[h] = <<>>
    /\ drag_over' = [drag_over EXCEPT ![g] = <<DragOverPos(pos, tab_size[g])>>]
    /\ UNCHANGED <<coordVars, tabVars, db, sessionVars, layoutVars,
                   dragging, tab_size, drag_start>>

\* DragLeave on pane g
DragLeave(g) ==
    /\ drag_over[g] # <<>>
    /\ drag_over' = [drag_over EXCEPT ![g] = <<>>]
    /\ UNCHANGED <<coordVars, tabVars, db, sessionVars, layoutVars,
                   dragging, tab_size, drag_start>>

\* The tab that is dragged is still where the drag began: its index signal
\* holds its place in that group.
DragSource ==
    /\ dragging # <<>>
    /\ dragging[2] \in OpenTabs
    /\ \E i \in 1 .. Len(editor_tabs[dragging[2]].children) :
          editor_tabs[dragging[2]].children[i] = dragging[1]

\* Mutant: the active index of the source group stands in for the dragged tab's.
FromIndexActive == editor_tabs[dragging[2]].active

\* from_index.get_untracked(): the index signal of the dragged child, read
\* when the drop is handled.
FromIndex == order_index[dragging[1]]

\* Mutant: the drops at the top and at the bottom edge are exchanged.
SideOfSwapped(pos) ==
    IF pos = "Top" THEN "Down"
    ELSE IF pos = "Bottom" THEN "Up"
    ELSE pos

\* SplitMoveDirection of a drop at the edge of a pane
SideOf(pos) ==
    IF pos = "Top" THEN "Up"
    ELSE IF pos = "Bottom" THEN "Down"
    ELSE pos

\* What a Drop handler returns: the event is passed on when nothing is
\* dragged and stopped otherwise.
DropResult(drag) == IF drag = <<>> THEN "Continue" ELSE "Stop"

\* Mutant: a drop without a drop position counts as a drop in the middle.
DropHoverDefault(drag, over) ==
    IF drag = <<>> THEN <<>> ELSE IF over = <<>> THEN <<"Middle">> ELSE over

\* The drop position the Drop handler of a pane acts on: that of drag_over
\* if something is dragged, none otherwise.
DropHover(drag, over) == IF drag = <<>> THEN <<>> ELSE over

\* Drop on pane g with nothing dragged, or with no drop position: without a
\* drag the event is passed on, and without a drop position only drag_over
\* is cleared.
DropOnPaneInert(g) ==
    /\ g \in OpenTabs
    /\ DropHover(dragging, drag_over[g]) = <<>>
    /\ drag_over' = IF dragging = <<>> THEN drag_over
                    ELSE [drag_over EXCEPT ![g] = <<>>]
    /\ UNCHANGED <<coordVars, tabVars, db, sessionVars, layoutVars, dragging,
                   tab_size, drag_start>>

\* Drop on pane g of a dragged tab, at the drop position of drag_over.
DropOnPane(g) ==
    /\ g \in OpenTabs
    /\ DragSource
    /\ DropHover(dragging, drag_over[g]) # <<>>
    /\ LET from == dragging[2]
           L == CurrentLayout
           pos == DropHover(dragging, drag_over[g])[1]
           after == IF pos = "Middle"
                    THEN MoveEditorTabChild(L, from, g, FromIndex,
                                            editor_tabs[g].active + 1)
                    ELSE MoveEditorTabChildToNewSplit(L, from, FromIndex, g,
                                                      SideOf(pos))
           taken == IF pos = "Middle" THEN L
                    ELSE RemoveChild(L, from, FromIndex)
       IN /\ pos # "Middle"
               => CanMoveToNewSplit(L, from, FromIndex, g, SideOf(pos))
          /\ splits' = after.splits
          /\ editor_tabs' = after.editor_tabs
          /\ root_split' = after.root
          /\ order_index' = HeaderItems(after, order_index)
          /\ scope_disposed' =
                Disposals(taken, after, Disposals(L, taken, scope_disposed))
          /\ drag_over' = [h \in EditorTabIds |-> <<>>]
          /\ drag_start' = KeepBorder(after, drag_start)
    /\ UNCHANGED <<coordVars, tabVars, db, sessionVars, dragging, tab_size>>

\* The size of a tab header, and pointer positions in its two halves.
HeaderSize == <<120, 30>>
HeaderXs == {30, 90}

\* Mutant: a drop on the right half goes two places on.
DropIndexFar(index, x, width) == IF 2 * x < width THEN index ELSE index + 2

\* new_index of a drop at x on the header of the tab at index
DropIndex(index, x, width) == IF 2 * x < width THEN index ELSE index + 1

\* Drop at x on the header of the tab at index i of group g with nothing
\* dragged: the event is passed on.
DropOnHeaderInert(g, i, x) ==
    /\ g \in OpenTabs
    /\ i < Len(editor_tabs[g].children)
    /\ dragging = <<>>
    /\ UNCHANGED vars

\* Drop at x on the header of the tab at index i of group g
DropOnHeader(g, i, x) ==
    /\ g \in OpenTabs
    /\ i < Len(editor_tabs[g].children)
    /\ DragSource
    /\ Becomes(MoveEditorTabChild(CurrentLayout, dragging[2], g, FromIndex,
                                  DropIndex(i, x, HeaderSize[1])))
    /\ UNCHANGED <<coordVars, tabVars, db, sessionVars, dragging, tab_size>>

\* The split button of pane g: InternalCommand::Split, direction Vertical
SplitPane(g) ==
    /\ g \in OpenTabs
    /\ PointerFree
    /\ CanSplit(CurrentLayout, g, "Vertical")
    /\ Becomes(Split(CurrentLayout, g, "Vertical"))
    /\ UNCHANGED <<coordVars, tabVars, db, sessionVars, dragging, tab_size>>

\* The close-all button of pane g: InternalCommand::EditorTabClose
EditorTabClose(g) ==
    /\ g \in OpenTabs
    /\ PointerFree
    /\ Becomes(CloseEditorTab(CurrentLayout, g))
    /\ UNCHANGED <<coordVars, tabVars, db, sessionVars, dragging, tab_size>>

\* A middle click on the header of the tab at index i of group g:
\* InternalCommand::EditorTabChildClose
EditorTabChildClose(g, i) ==
    /\ g \in OpenTabs
    /\ PointerFree
    /\ i < Len(editor_tabs[g].children)
    /\ Becomes(RemoveChild(CurrentLayout, g, i))
    /\ UNCHANGED <<coordVars, tabVars, db, sessionVars, dragging, tab_size>>

\* The entries of the menu of a tab header, and those that close by kind.
ByKindEntries == {"Close Other Tabs", "Close Tabs to the Right", "Close Tabs to the Left"}
MenuEntries == ByKindEntries \cup {"Close", "Close All Tabs"}

\* Mutant: the entries for the two sides are exchanged.
MenuKindSwapped(entry) ==
    IF entry = "Close Other Tabs" THEN "CloseOther"
    ELSE IF entry = "Close Tabs to the Right" THEN "CloseToLeft"
    ELSE "CloseToRight"

\* TabCloseKind of an entry
MenuKind(entry) ==
    IF entry = "Close Other Tabs" THEN "CloseOther"
    ELSE IF entry = "Close Tabs to the Right" THEN "CloseToRight"
    ELSE "CloseToLeft"

\* tab_secondary_click: an entry chosen in the menu of the tab at index i of
\* group g: InternalCommand::EditorTabChildCloseByKind
TabMenu(g, i, entry) ==
    /\ g \in OpenTabs
    /\ PointerFree
    /\ i < Len(editor_tabs[g].children)
    /\ Becomes(IF entry = "Close" THEN RemoveChild(CurrentLayout, g, i)
               ELSE IF entry = "Close All Tabs" THEN CloseEditorTab(CurrentLayout, g)
               ELSE CloseByKind(CurrentLayout, g, editor_tabs[g].children[i + 1],
                                MenuKind(entry)))
    /\ UNCHANGED <<coordVars, tabVars, db, sessionVars, dragging, tab_size>>

\* PointerDown on the border before child index (from 1) of split s
PointerDown(s, index) ==
    /\ s \in DOMAIN splits
    /\ index < Len(splits[s].children)
    /\ PointerFree
    /\ drag_start' = <<s, index>>
    /\ UNCHANGED <<coordVars, tabVars, db, sessionVars, layoutVars,
                   dragging, drag_over, tab_size>>

\* PointerUp on the border
PointerUp ==
    /\ drag_start # <<>>
    /\ drag_start' = <<>>
    /\ UNCHANGED <<coordVars, tabVars, db, sessionVars, layoutVars,
                   dragging, drag_over, tab_size>>

\* The extents in pixels of the children of a split along its axis, as laid
\* out, and the pointer's shift from where the border was taken.
RectWidths == {100}
Shifts == {10, 150}

\* Mutant: the child after the border grows with the shift as well.
ResizedBoth(rects, index, shift, i) ==
    IF i = index - 1 \/ i = index THEN rects[i + 1] + shift ELSE rects[i + 1]

\* The extent child i (from 0) is given by a shift of the border before child
\* index: left = rects[index - 1] + shift, right = rects[index] - shift.
Resized(rects, index, shift, i) ==
    IF i = index - 1 THEN rects[i + 1] + shift
    ELSE IF i = index THEN rects[i + 1] - shift
    ELSE rects[i + 1]

\* Mutant: a border takes a move of the pointer whether or not it holds it.
CapturedAlways(start, s, index) == TRUE

\* The drag_start signal of the border before child index of split s is set:
\* the pointer went down on that border and has not gone up since.
Captured(start, s, index) == start = <<s, index>>

\* PointerMove on the border before child index of split s: if that border
\* holds the pointer, every child's size is set to its extent over the total.
PointerMove(s, index, rects, shift) ==
    /\ s \in DOMAIN splits
    /\ index < Len(splits[s].children)
    /\ Captured(drag_start, s, index)
    /\ LET total == Sum(rects)
       IN /\ Len(rects) = Len(splits[s].children)
          /\ splits' = [splits EXCEPT ![s].children =
                Listed([i \in 1 .. Len(rects) |->
                    SplitChild(FDiv(Resized(rects, index, shift, i - 1), total),
                               splits[s].children[i].content)])]
    /\ splits' # splits
    /\ UNCHANGED <<coordVars, tabVars, db, sessionVars, editor_tabs, root_split,
                   order_index, scope_disposed, dragVars>>

LayoutInit ==
    /\ NoLaunch
    /\ FreshLayout
    /\ OneTab
    /\ NoSpawn
    /\ NoDrag

LayoutNext ==
    \/ \E g \in EditorTabIds, i \in 0 .. MaxChildren - 1 : DragStart(g, i)
    \/ \E g \in EditorTabIds, i \in 0 .. MaxChildren - 1 : TabPointerDown(g, i)
    \/ DragEnd
    \/ \E g \in EditorTabIds, pos \in ExamplePoints : DragOver(g, pos)
    \/ \E g \in EditorTabIds : DragLeave(g)
    \/ \E g \in EditorTabIds : DropOnPane(g)
    \/ \E g \in EditorTabIds, i \in 0 .. MaxChildren - 1, x \in HeaderXs :
          DropOnHeader(g, i, x)
    \/ \E g \in EditorTabIds : SplitPane(g)
    \/ \E g \in EditorTabIds : EditorTabClose(g)
    \/ \E g \in EditorTabIds, i \in 0 .. MaxChildren - 1 : EditorTabChildClose(g, i)
    \/ \E g \in EditorTabIds, i \in 0 .. MaxChildren - 1, entry \in MenuEntries :
          TabMenu(g, i, entry)

LayoutSpec == LayoutInit /\ [][LayoutNext]_vars

\* The panes of a workspace tab as they are split, closed, moved to the
\* top edge of other panes and resized.
EdgePoints == {<<200, 10>>}

ResizeNext ==
    \/ \E g \in EditorTabIds, i \in 0 .. MaxChildren - 1 : DragStart(g, i)
    \/ DragEnd
    \/ \E g \in EditorTabIds, pos \in EdgePoints : DragOver(g, pos)
    \/ \E g \in EditorTabIds : DragLeave(g)
    \/ \E g \in EditorTabIds : DropOnPane(g)
    \/ \E g \in EditorTabIds : SplitPane(g)
    \/ \E g \in EditorTabIds : EditorTabClose(g)
    \/ \E s \in SplitIds, index \in 1 .. MaxGroups - 1 : PointerDown(s, index)
    \/ PointerUp
    \/ \E s \in SplitIds, index \in 1 .. MaxGroups - 1, n \in 2 .. MaxGroups :
          \E rects \in [1 .. n -> RectWidths], shift \in Shifts :
              PointerMove(s, index, rects, shift)

ResizeSpec == LayoutInit /\ [][ResizeNext]_vars

(***************************************************************************)
(* The workspace tab headers of a window.                                  *)
(***************************************************************************)
\* WindowData::move_tab(from_index, to_index)
MoveTab(tabs, from_index, to_index) ==
    IF from_index = to_index THEN tabs
    ELSE InsertAt(RemoveAt(tabs, from_index + 1),
                  AdjustedIndex(from_index, to_index) + 1,
                  tabs[from_index + 1])

\* The header list of the window reads the tabs again; a tab that is
\* closed has no index signal (0).
TabItems(tabs, index) ==
    [t \in WindowTabIds |-> IF t \in Range(tabs) THEN Items(tabs, index)[t] ELSE 0]

\* DragStart on the header of the workspace tab at index i
TabDragStart(i) ==
    /\ i < Len(window_tabs)
    /\ PointerFree
    /\ dragging_index' = <<window_tabs[i + 1]>>
    /\ UNCHANGED <<coordVars, db, sessionVars, layoutVars, dragVars,
                   window_tabs, tab_index>>

\* DragEnd on the header the drag began on
TabDragEnd ==
    /\ dragging_index # <<>>
    /\ dragging_index' = <<>>
    /\ UNCHANGED <<coordVars, db, sessionVars, layoutVars, dragVars,
                   window_tabs, tab_index>>

\* Drop at x on the header of the workspace tab at index i with no
\* workspace tab dragged: the event is passed on.
TabDropInert(i, x) ==
    /\ i < Len(window_tabs)
    /\ dragging_index = <<>>
    /\ UNCHANGED vars

\* Drop at x on the header of the workspace tab at index i
TabDrop(i, x) ==
    /\ i < Len(window_tabs)
    /\ dragging_index # <<>>
    /\ LET from_index == tab_index[dragging_index[1]]
           tabs == MoveTab(window_tabs, from_index, DropIndex(i, x, HeaderSize[1]))
       IN /\ window_tabs' = tabs
          /\ tab_index' = TabItems(tabs, tab_index)
    /\ dragging_index' = <<>>
    /\ UNCHANGED <<coordVars, db, sessionVars, layoutVars, dragVars>>

\* The add button: WindowCommand::NewWorkspaceTab { end: true }.  Where the
\* window puts the new tab is its own matter: at some place k of the list.
NewWorkspaceTab(k) ==
    /\ Len(window_tabs) < MaxTabs
    /\ k <= Len(window_tabs)
    /\ PointerFree
    /\ LET t == CHOOSE u \in WindowTabIds \ Range(window_tabs) :
                    \A v \in WindowTabIds \ Range(window_tabs) : u <= v
           tabs == InsertAt(window_tabs, k + 1, t)
       IN /\ window_tabs' = tabs
          /\ tab_index' = TabItems(tabs, tab_index)
    /\ UNCHANGED <<coordVars, db, sessionVars, layoutVars, dragVars,
                   dragging_index>>

\* The close icon of the workspace tab at index i:
\* WindowCommand::CloseWorkspaceTab { index: Some(i) }
CloseWorkspaceTab(i) ==
    /\ i < Len(window_tabs)
    /\ Len(window_tabs) > 1
    /\ PointerFree
    /\ LET index == tab_index[window_tabs[i + 1]]
           tabs == RemoveAt(window_tabs, index + 1)
       IN /\ window_tabs' = tabs
          /\ tab_index' = TabItems(tabs, tab_index)
    /\ UNCHANGED <<coordVars, db, sessionVars, layoutVars, dragVars,
                   dragging_index>>

\* The tabs of one pane split, moved, reordered and closed, and the
\* workspace tabs of the window opened, reordered and closed.
MiddlePoints == {<<200, 150>>}

TabsNext ==
    \/ \E g \in EditorTabIds, i \in 0 .. MaxChildren - 1 : DragStart(g, i)
    \/ DragEnd
    \/ \E g \in EditorTabIds, pos \in MiddlePoints : DragOver(g, pos)
    \/ \E g \in EditorTabIds : DropOnPane(g)
    \/ \E g \in EditorTabIds, i \in 0 .. MaxChildren - 1, x \in HeaderXs :
          DropOnHeader(g, i, x)
    \/ \E g \in EditorTabIds : SplitPane(g)
    \/ \E g \in EditorTabIds, i \in 0 .. MaxChildren - 1 : EditorTabChildClose(g, i)
    \/ \E i \in 0 .. MaxTabs - 1 : TabDragStart(i)
    \/ TabDragEnd
    \/ \E i \in 0 .. MaxTabs - 1, x \in HeaderXs : TabDrop(i, x)
    \/ \E k \in 0 .. MaxTabs - 1 : NewWorkspaceTab(k)
    \/ \E i \in 0 .. MaxTabs - 1 : CloseWorkspaceTab(i)

TabsSpec == LayoutInit /\ [][TabsNext]_vars

\* The Drop events of the panes, the tab headers and the workspace tab
\* headers, with and without a drag.
DropNext ==
    \/ \E g \in EditorTabIds, i \in 0 .. MaxChildren - 1 : DragStart(g, i)
    \/ DragEnd
    \/ \E g \in EditorTabIds, pos \in MiddlePoints : DragOver(g, pos)
    \/ \E g \in EditorTabIds : DragLeave(g)
    \/ \E g \in EditorTabIds : DropOnPane(g)
    \/ \E g \in EditorTabIds : DropOnPaneInert(g)
    \/ \E g \in EditorTabIds, i \in 0 .. MaxChildren - 1, x \in HeaderXs :
          \/ DropOnHeader(g, i, x)
          \/ DropOnHeaderInert(g, i, x)
    \/ \E g \in EditorTabIds : SplitPane(g)
    \/ \E i \in 0 .. MaxTabs - 1 : TabDragStart(i)
    \/ TabDragEnd
    \/ \E i \in 0 .. MaxTabs - 1, x \in HeaderXs :
          \/ TabDrop(i, x)
          \/ TabDropInert(i, x)
    \/ \E k \in 0 .. MaxTabs - 1 : NewWorkspaceTab(k)

DropSpec == LayoutInit /\ [][DropNext]_vars

\* on_resize of pane g: the size the pane is laid out at
PaneResized(g, size) ==
    /\ g \in OpenTabs
    /\ tab_size[g] # size
    /\ tab_size' = [tab_size EXCEPT ![g] = size]
    /\ UNCHANGED <<coordVars, tabVars, db, sessionVars, layoutVars,
                   dragging, drag_over, drag_start>>

\* A pane before its first layout, and a tab dragged over it.
QuadrantInit ==
    /\ NoLaunch
    /\ FreshLayout
    /\ OneTab
    /\ NoSpawn
    /\ dragging = <<>>
    /\ drag_over = [g \in EditorTabIds |-> <<>>]
    /\ tab_size = [g \in EditorTabIds |-> <<0, 0>>]
    /\ drag_start = <<>>

QuadrantNext ==
    \/ \E g \in EditorTabIds, i \in 0 .. MaxChildren - 1 : DragStart(g, i)
    \/ DragEnd
    \/ \E g \in EditorTabIds, size \in PaneSizes : PaneResized(g, size)
    \/ \E g \in EditorTabIds, pos \in PointerGrid : DragOver(g, pos)
    \/ \E g \in EditorTabIds : DragLeave(g)

QuadrantSpec == QuadrantInit /\ [][QuadrantNext]_vars

(***************************************************************************)
(* Properties.                                                             *)
(***************************************************************************)
\* The process got as far as spawning its listener thread (server role).
RanAsServer(p) == lpc[p] # "none"

\* Every path of the command line of p is open in a window of p: a
\* directory as the workspace of a window, a file in a window's files.
OpensAll(p) ==
    \A i \in 1 .. Len(cli[p].paths) :
        LET po == cli[p].paths[i]
        IN \E w \in 1 .. Len(windows[p]) :
              IF po.is_dir
              THEN windows[p][w].info.tabs.workspaces = <<Workspace(po.path)>>
              ELSE po \in Range(windows[p][w].files)

\* C1 (as claimed): at no time are two processes that were launched without
\* --new both running as server with their own windows.
C1_SingleInstance ==
    Cardinality({p \in Procs : pc[p] = "running" /\ ~cli[p].new}) <= 1

\* C2 (as claimed): a launch whose connect failed always proceeds as the
\* first instance: it becomes a server, has a window and opens its paths.
C2_FallbackAlwaysWindow ==
    \A p \in Procs :
        (probe[p] = "failed" /\ pc[p] # "db")
            => /\ RanAsServer(p)
               /\ pc[p] = "running" => (Len(windows[p]) >= 1 /\ OpensAll(p))

\* C2 (amended): a launch whose connect failed either becomes a server with
\* at least one window in which every path of its command line is open, or,
\* when the session store cannot be opened, exits with code 1 without a
\* window; it never takes the silent exit (code 0) of the hand-off path.
C2_HandoffFallback ==
    \A p \in Procs :
        (probe[p] = "failed" /\ pc[p] # "db")
            => \/ /\ RanAsServer(p)
                  /\ pc[p] = "running" => (Len(windows[p]) >= 1 /\ OpensAll(p))
               \/ /\ ~RanAsServer(p)
                  /\ pc[p] = "exited"
                  /\ exitCode[p] = 1
                  /\ windows[p] = <<>>

C2_Witness ==
    \E p \in Procs :
        /\ probe[p] = "failed"
        /\ pc[p] = "running"
        /\ cli[p].paths = <<File1>>
        /\ Len(windows[p]) = 1
        /\ windows[p][1].files = <<File1>>

\* C3: a process whose connect succeeded never creates a window, never
\* spawns or binds a listener and never owns the channel address; it only
\* waits for the acknowledgement and exits, whatever the outcome.
C3_FailClosed ==
    \A p \in Procs :
        probe[p] = "ok"
            => /\ pc[p] \in {"wait", "exited"}
               /\ windows[p] = <<>>
               /\ lpc[p] = "none"
               /\ p \notin addr

C3_Witness ==
    \E p \in Procs :
        /\ probe[p] = "ok"
        /\ pc[p] = "exited"
        /\ result[p] = "err"

\* C4: the client never waits longer than the 500 ms timeout, and every
\* client that waits for the acknowledgement eventually exits, also when
\* the server never writes anything back.
C4_BoundedWait ==
    /\ [](\A p \in Procs : elapsed[p] <= AckTimeoutMs)
    /\ \A p \in Procs : (pc[p] = "wait") ~> (pc[p] = "exited")

\* A client that has timed out: its connection was never accepted by a
\* server that is still running, so nothing was written back.
C4_Witness ==
    \E p \in Procs :
        /\ probe[p] = "ok"
        /\ pc[p] = "exited"
        /\ result[p] = "err"
        /\ hpc[p] = "none"
        /\ pc[Server(p)] = "running"

\* C5 (as claimed): whenever an acknowledgement is written on a connection,
\* the handler has sent the message it last read to the hand-off channel.
C5_AckFollowsDispatch ==
    [][\A c \in Conns : Len(s2c'[c]) > Len(s2c[c]) => hsent[c]]_vars

C8_ThreadConfinement ==
    [][/\ (pc' = pc /\ (hpc' # hpc \/ lpc' # lpc))
          => (windows' = windows /\ opened' = opened)
       /\ \A s \in Procs :
             (pc'[s] = pc[s] /\ opened'[s] # opened[s])
                 => /\ Len(pending[s]) > 0
                    /\ pending'[s] = Tail(pending[s])
                    /\ opened'[s] = opened[s] \cup Range(Head(pending[s]).paths)
                    /\ hpc' = hpc
                    /\ lpc' = lpc]_vars

C8_Witness ==
    \E s \in Procs : \E c \in Conns :
        /\ opened[s] # {}
        /\ csrv[c] = {s}
        /\ hpc[c] = "read"

\* The message at the head of the stream of c does not decode.
DecodeFails(c) ==
    /\ hpc[c] = "read"
    /\ Len(c2s[c]) > 0
    /\ ReadMsg(c2s[c]).status = "err"

\* C9: the step in which a handler reads a message that fails to decode
\* ends the handler of its own connection and nothing else: the listener
\* stays as it is (bound, so it keeps accepting) and every other connection
\* and handler is untouched.
C9_MalformedIsolation ==
    [][\A c \in Conns :
          (DecodeFails(c) /\ hpc'[c] # hpc[c] /\ pc' = pc)
              => /\ hpc'[c] = "done"
                 /\ lpc' = lpc
                 /\ addr' = addr
                 /\ \A d \in Conns \ {c} :
                       /\ hpc'[d] = hpc[d]
                       /\ hmsg'[d] = hmsg[d]
                       /\ c2s'[d] = c2s[d]
                       /\ s2c'[d] = s2c[d]
                       /\ popen'[d] = popen[d]]_vars

\* A connection was dropped for a malformed message (its peer is still
\* open) while the listener is bound and another handler is at work.
C9_Witness ==
    \E c \in Conns : \E d \in Conns \ {c} :
        /\ hpc[c] = "done"
        /\ popen[c]
        /\ csrv[d] = csrv[c]
        /\ pc[Server(c)] = "running"
        /\ lpc[Server(c)] = "bound"
        /\ hpc[d] = "ack"

\* C10: the initial windows of a server follow the strict priority
\* (1) directories named: one window per directory, in order, with that
\* directory as its workspace, and the named files opened; (2) only files
\* named: one window with an unset workspace that opens them; (3) nothing
\* named and a snapshot with windows: one window per WindowInfo, in snapshot
\* order; (4) otherwise one default window with an unset workspace.
C10_StartupOrder ==
    \A p \in Procs :
        pc[p] = "running" =>
            LET dirs == SelectSeq(cli[p].paths, IsDir)
                files == SelectSeq(cli[p].paths, IsFile)
                wins == windows[p]
                opens == Flatten([i \in 1 .. Len(wins) |-> wins[i].files])
            IN IF dirs # <<>>
               THEN /\ Len(wins) = Len(dirs)
                    /\ \A i \in 1 .. Len(dirs) :
                          wins[i].info.tabs.workspaces = <<Workspace(dirs[i].path)>>
                    /\ opens = files
               ELSE IF files # <<>>
               THEN /\ Len(wins) = 1
                    /\ wins[1].info.tabs.workspaces = <<DefaultWorkspace>>
                    /\ wins[1].files = files
               ELSE IF db.app.ok /\ Len(db.app.windows) >= 1
               THEN /\ Len(wins) = Len(db.app.windows)
                    /\ \A i \in 1 .. Len(wins) :
                          /\ wins[i].info = db.app.windows[i]
                          /\ wins[i].files = <<>>
               ELSE /\ Len(wins) = 1
                    /\ wins[1].info.tabs =
                          [active_tab |-> 0, workspaces |-> <<DefaultWorkspace>>]
                    /\ wins[1].files = <<>>

\* Files only, with a restorable snapshot of two windows: no restore.
C10_Witness ==
    /\ pc[1] = "running"
    /\ cli[1].paths = <<File1, File2>>
    /\ db.app.ok
    /\ Len(db.app.windows) = 2
    /\ Len(windows[1]) = 1

\* The writes a shutdown made: by the handler of the last window closing, by
\* the termination event, or by anything that ran after it.
ShutdownWrites == {i \in DOMAIN writes : writes[i].shutdown}

C12_PersistBeforeDispose ==
    \A w \in disposed : \E i \in DOMAIN writes : w \in Range(writes[i].ids)

C18_Region(x, y, width, height, region) ==
    LET left == 4 * x < width
        right == 4 * x > 3 * width
        top == 4 * y < height
        bottom == 4 * y > 3 * height
    IN /\ left => region = "Left"
       /\ ~left /\ right => region = "Right"
       /\ ~left /\ ~right /\ top => region = "Top"
       /\ ~left /\ ~right /\ ~top /\ bottom => region = "Bottom"
       /\ ~left /\ ~right /\ ~top /\ ~bottom => region = "Middle"
       /\ (left \/ right) /\ (top \/ bottom) => region \in {"Left", "Right"}
C18_Examples(pos, size, region) ==
    size = <<400, 300>> =>
        /\ pos = <<50, 150>> => region = "Left"
        /\ pos = <<390, 150>> => region = "Right"
        /\ pos = <<200, 10>> => region = "Top"
        /\ pos = <<200, 290>> => region = "Bottom"
        /\ pos = <<200, 150>> => region = "Middle"
C18_QuadrantDetection ==
    [][\A g \in EditorTabIds, pos \in PointerGrid :
         DragOver(g, pos) =>
            /\ drag_over'[g] # <<>>
            /\ C18_Region(pos[1], pos[2], tab_size[g][1], tab_size[g][2],
                          drag_over'[g][1])
            /\ C18_Examples(pos, tab_size[g], drag_over'[g][1])]_vars

\* C18 witness: a tab dragged over a 400 x 300 pane was given Left.
C18_Witness ==
    /\ dragging # <<>>
    /\ tab_size[1] = <<400, 300>>
    /\ drag_over[1] = <<"Left">>

\* C19: reorder idempotence.  A tab dropped on its own header, on either
\* half, leaves the order of the children of its group as it was.
C19_ReorderIdempotence ==
    [][\A g \in EditorTabIds, i \in 0 .. MaxChildren - 1, x \in HeaderXs :
         (DropOnHeader(g, i, x) /\ dragging = <<editor_tabs[g].children[i + 1], g>>)
            => /\ editor_tabs'[g].children = editor_tabs[g].children
               /\ \A h \in OpenTabs : editor_tabs'[h].children = editor_tabs[h].children]_vars

\* C19 witness: a tab that is not the last of its group is dragged and is
\* the active one, as after its drop on its own header.
C19_Witness ==
    /\ DragSource
    /\ FromIndex + 1 < Len(editor_tabs[dragging[2]].children)
    /\ editor_tabs[dragging[2]].active = FromIndex

\* C20: close-by-kind completeness.  With reference child c at index k,
\* CloseOther leaves exactly c, CloseToLeft removes exactly the children at
\* indices below k and CloseToRight exactly those above k; the children left
\* keep their order, and no other group changes.
C20_CloseByKind ==
    [][\A g \in EditorTabIds, k \in 0 .. MaxChildren - 1 :
         LET before == editor_tabs[g].children
             after == editor_tabs'[g].children
             n == Len(before)
         IN /\ TabMenu(g, k, "Close Other Tabs") => after = <<before[k + 1]>>
            /\ TabMenu(g, k, "Close Tabs to the Left")
                  => after = [j \in 1 .. n - k |-> before[j + k]]
            /\ TabMenu(g, k, "Close Tabs to the Right")
                  => after = [j \in 1 .. k + 1 |-> before[j]]
            /\ (\E entry \in ByKindEntries : TabMenu(g, k, entry))
                  => /\ OpenTabs' = OpenTabs
                     /\ \A h \in OpenTabs \ {g} : editor_tabs'[h] = editor_tabs[h]
                     /\ editor_tabs'[g].active < Len(after)]_vars

\* C20 witness: of the three tabs the middle one was the reference child
\* and one side was closed.
C20_Witness ==
    \E g \in OpenTabs :
        /\ Len(editor_tabs[g].children) = 2
        /\ AllChildren(CurrentLayout) \in {{1, 2}, {2, 3}, {1, 3}}
        /\ Cardinality(OpenTabs) = 1

\* C16: tree shape.  After any sequence of inserts, moves and closes the
\* graph of SplitContent below root_split is acyclic, and every SplitNode id
\* and every EditorTabGroup id is reached from the root by exactly one
\* parent path: the root has no parent slot and every other one exactly one.
C16_TreeShape ==
    LET L == CurrentLayout
    IN /\ \A s \in DOMAIN L.splits : s \notin Below(L, {s}, MaxSplits + 1)
       /\ \A s \in DOMAIN L.splits :
             Cardinality(Slots(L, SplitOf(s))) = IF s \in L.root THEN 0 ELSE 1
       /\ \A g \in DOMAIN L.editor_tabs : Cardinality(Slots(L, EditorTab(g))) = 1
       /\ \A s \in ReachableSplits(L) : \A i \in 1 .. Len(L.splits[s].children) :
             LET c == L.splits[s].children[i].content
             IN c.id \in (IF c.kind = "Split" THEN DOMAIN L.splits
                          ELSE DOMAIN L.editor_tabs)

\* C16 witness: three panes, one of them beside a nested split of the other two.
C16_Witness ==
    /\ Cardinality(OpenTabs) = 3
    /\ \E s \in DOMAIN splits \ root_split : Len(splits[s].children) = 2
    /\ \E r \in root_split : Len(splits[r].children) = 2

\* C17: no empty split.  No SplitNode reachable from the root has an empty
\* list of children: removing the last child of one takes it out of the tree.
C17_NoEmptySplit ==
    \A s \in ReachableSplits(CurrentLayout) : splits[s].children # <<>>

\* C17 witness: the last pane was closed, and its SplitNode, the root, is
\* gone with it.
C17_Witness ==
    /\ OpenTabs = {}
    /\ root_split \cap DOMAIN splits = {}

\* The sum of the size ratios of the children of split s, and how far it is
\* from 1.0, in units of 2^-FracBits.
RatioSum(s) == Sum(Sizes(splits[s].children))
RatioError(s) == IF RatioSum(s) >= One THEN RatioSum(s) - One ELSE One - RatioSum(s)

C15_RatioNonNegative ==
    \A s \in DOMAIN splits : \A i \in 1 .. Len(splits[s].children) :
        splits[s].children[i].size >= 0

\* C21: order-index permutation.  In every editor tab group, and in the list
\* of workspace tabs of the window, the index signal of each child equals the
\* position of the child in the list, so that the signals of a list are
\* exactly 0 .. len - 1, whatever was reordered, moved, opened or closed.
C21_OrderIndex ==
    /\ \A g \in OpenTabs : \A i \in 1 .. Len(editor_tabs[g].children) :
          order_index[editor_tabs[g].children[i]] = i - 1
    /\ \A i \in 1 .. Len(window_tabs) : tab_index[window_tabs[i]] = i - 1

\* C21 witness: a group holds three tabs and the window three workspace tabs,
\* both in another order than they were opened in.
C21_Witness ==
    /\ \E g \in OpenTabs :
          /\ Len(editor_tabs[g].children) = 3
          /\ editor_tabs[g].children[1] > editor_tabs[g].children[2]
          /\ order_index[editor_tabs[g].children[3]] = 2
    /\ Len(window_tabs) = 3
    /\ window_tabs[1] > window_tabs[3]
    /\ tab_index[window_tabs[3]] = 2

\* C22 as stated: drag state reset.  Once a drag gesture has ended, be it by
\* a drop on a pane or on a tab header or by the DragEnd of the dragged
\* header, no tab is held as being dragged, so that no later Drop finds a
\* stale drag source.
C22_DragStateReset ==
    [][((\E g \in EditorTabIds : DropOnPane(g))
          \/ (\E g \in EditorTabIds, i \in 0 .. MaxChildren - 1, x \in HeaderXs :
                 DropOnHeader(g, i, x))
          \/ DragEnd)
       => dragging' = <<>>]_vars

\* C23: no disposal while reachable.  The scope of an editor tab group or of
\* a split that is in its map, and so of every node the tree shows, has not
\* been disposed, although the view of a node is removed and its cleanup
\* hook runs each time the node is moved to another list of the tree.
C23_NoDisposalWhileReachable ==
    \A n \in Nodes :
        (Registered(CurrentLayout, n) \/ n \in Shown(CurrentLayout))
            => scope_disposed[n] = 0

\* C23 witness: pane 1, first a child of the root, is now shown in a nested
\* split (its view in the root's list was removed), and the scope of
\* another pane has been disposed.
C23_Witness ==
    /\ 1 \in OpenTabs
    /\ ParentsOf(CurrentLayout, EditorTab(1)) \cap root_split = {}
    /\ scope_disposed[EditorTab(1)] = 0
    /\ \E g \in EditorTabIds \ OpenTabs : scope_disposed[EditorTab(g)] = 1

\* C24: disposal exactly once.  When an editor tab group or a split other
\* than the root leaves its map, the cleanup hook of its view disposes its
\* scope in the course of that change, and no scope is ever disposed twice.
C24_DisposalOnce ==
    /\ [](\A n \in Nodes : scope_disposed[n] <= 1)
    /\ [][\A n \in Nodes :
            (/\ Registered(CurrentLayout, n)
             /\ n.kind = "Split" => n.id \notin root_split
             /\ ~Registered(Layout(splits', editor_tabs', root_split'), n))
                => scope_disposed'[n] = 1]_vars

\* C24 witness: a nested split and a pane have left the tree, and the scope
\* of each was disposed once.
C24_Witness ==
    /\ \E s \in SplitIds \ (DOMAIN splits \cup root_split) :
          scope_disposed[SplitOf(s)] = 1
    /\ \E g \in EditorTabIds \ OpenTabs : scope_disposed[EditorTab(g)] = 1
    /\ OpenTabs # {}

\* C25: a session store that cannot be opened is fatal.  The process whose
\* LapceDb::new() fails exits with code 1, and it has neither created a
\* window nor started its listener; a process that handed its paths over or
\* ran the application exits with code 0.
C25_StoreFailureFatal ==
    /\ [][\A p \in Procs :
            DbFail(p) => /\ exitCode'[p] = 1
                         /\ pc'[p] = "exited"
                         /\ windows[p] = <<>> /\ windows'[p] = <<>>
                         /\ lpc[p] = "none" /\ lpc'[p] = "none"
                         /\ p \notin addr']_vars
    /\ [](\A p \in Procs :
            (pc[p] = "exited" /\ (probe[p] = "ok" \/ RanAsServer(p)))
                => exitCode[p] = 0)

\* C25 witness: one process has run the application and quit, another was
\* started with --wait and has exited with code 1.
C25_Witness ==
    \E p, q \in Procs :
        /\ pc[p] = "exited" /\ cli[p].wait /\ exitCode[p] = 1
        /\ pc[q] = "exited" /\ RanAsServer(q) /\ exitCode[q] = 0

\* A process that was started without --wait and has acted on it.
StartedWithoutWait(p) == ~cli[p].wait /\ (pc[p] # "idle" \/ spawned[p] # {})

\* C26 as stated: re-exec once.  A process started without --wait has
\* spawned itself exactly once, with --wait.
C26_ReexecExactlyOnce ==
    \A p \in Procs : StartedWithoutWait(p) => Cardinality(spawned[p]) = 1

\* C26, amended: a process started without --wait spawns itself once with
\* its arguments and --wait and returns with code 0, or fails to spawn and
\* exits with code 1 having spawned nothing; either way it has not probed
\* the channel address, started a listener or created a window.  A process
\* with --wait spawns nothing, so no spawned process has a spawned process.
C26_Reexec ==
    \A p \in Procs :
        /\ StartedWithoutWait(p) =>
              /\ pc[p] = "exited"
              /\ probe[p] = "none" /\ csrv[p] = {}
              /\ lpc[p] = "none" /\ p \notin addr
              /\ windows[p] = <<>>
              /\ \/ exitCode[p] = 0 /\ Cardinality(spawned[p]) = 1
                 \/ exitCode[p] = 1 /\ spawned[p] = {}
        /\ \A q \in spawned[p] :
              /\ argv[q] = <<[new |-> cli[p].new, paths |-> cli[p].paths]>>
              /\ argv[p] = <<>>
              /\ spawned[q] = {}
              /\ pc[q] # "idle" => cli[q] = [wait |-> TRUE, new |-> cli[p].new,
                                             paths |-> cli[p].paths]
        /\ cli[p].wait => spawned[p] = {}

\* C26 witness: a process started without --wait has returned, and the
\* process it spawned runs the application with its arguments.
C26_Witness ==
    \E p \in Procs : \E q \in spawned[p] :
        /\ exitCode[p] = 0
        /\ pc[q] = "running"
        /\ cli[q].wait
        /\ cli[q].paths = cli[p].paths /\ cli[q].paths # <<>>

\* C27 as stated: --new forces a new instance.  A launch with --new always
\* goes on to run the application with windows of its own: it has not
\* exited without having done so.
C27_NewAlwaysServer ==
    \A p \in Procs :
        (cli[p].wait /\ cli[p].new /\ pc[p] = "exited") => RanAsServer(p)

\* C27, amended: a launch with --new never connects to the channel address
\* and hands nothing over, whoever listens there; it goes on to open the
\* session store and then runs the application with at least one window of
\* its own, unless the store cannot be opened, in which case it exits with
\* code 1.
C27_NewInstance ==
    /\ [](\A p \in Procs :
            (cli[p].wait /\ cli[p].new) =>
                /\ probe[p] = "skipped"
                /\ csrv[p] = {} /\ c2s[p] = <<>> /\ result[p] = "none"
                /\ pc[p] \in {"db", "running", "exited"}
                /\ pc[p] = "running" => windows[p] # <<>>
                /\ pc[p] = "exited" => (RanAsServer(p) \/ exitCode[p] = 1))
    /\ [][\A p \in Procs :
            (cli[p].new /\ pc[p] = "db" /\ pc'[p] # "db") =>
                \/ pc'[p] = "running" /\ windows'[p] # <<>> /\ lpc'[p] = "spawned"
                \/ exitCode'[p] = 1 /\ windows'[p] = <<>>]_vars

\* C27 witness: a process launched with --new runs the application with a
\* window while the listener of another process is bound at the address.
C27_Witness ==
    \E p, q \in Procs :
        /\ p # q
        /\ addr = {q} /\ lpc[q] = "bound" /\ pc[q] = "running"
        /\ cli[p].new /\ cli[p].wait
        /\ pc[p] = "running" /\ windows[p] # <<>>
        /\ probe[p] = "skipped"

\* The tree the step leaves.
NextLayout == Layout(splits', editor_tabs', root_split')

\* What insert_pane makes of the tree L when the pane new is put next to
\* the pane target in the given direction, before or after it, giving L2.
C28_Inserted(L, L2, target, new, direction, before) ==
    LET p == CHOOSE s \in ParentsOf(L, EditorTab(target)) : TRUE
        i == SlotOf(L, p, EditorTab(target))
        at == IF before THEN i ELSE i + 1
        old == L.splits[p].children
        n == Len(old)
        kids == L2.splits[p].children
        pair == IF before THEN <<new, target>> ELSE <<target, new>>
    IN IF L.splits[p].direction # direction
       THEN /\ Len(kids) = n
            /\ \A k \in 1 .. n : k # i => kids[k] = old[k]
            /\ kids[i].size = old[i].size
            /\ kids[i].content.kind = "Split"
            /\ kids[i].content.id \in DOMAIN L2.splits \ DOMAIN L.splits
            /\ L2.splits[kids[i].content.id] =
                  SplitData(direction,
                            <<SplitChild(FDiv(1, 2), EditorTab(pair[1])),
                              SplitChild(FDiv(1, 2), EditorTab(pair[2]))>>)
       ELSE /\ Len(kids) = n + 1
            /\ kids[at] = SplitChild(FDiv(1, n + 1), EditorTab(new))
            /\ \A k \in 1 .. n :
                  kids[IF k < at THEN k ELSE k + 1] =
                      SplitChild(RoundDiv(old[k].size * n, n + 1), old[k].content)

\* C28: insert_pane ratios.  A new pane is put next to a pane by the split
\* button (direction Vertical, after the pane) and by a drop at an edge of
\* the pane (the dragged tab in a pane of its own).  Under a parent of
\* another direction the pane's slot then holds a new SplitNode of the
\* direction asked for with the pane and the new pane at ratio 0.5 each;
\* under a parent of that direction, with n children, the new pane is one
\* more sibling with ratio 1/(n+1) and the ratio of every other sibling is
\* scaled by n/(n+1).
C28_InsertPaneRatios ==
    [][\A g \in EditorTabIds :
          /\ SplitPane(g) =>
                \E new \in DOMAIN editor_tabs' \ DOMAIN editor_tabs :
                    C28_Inserted(CurrentLayout, NextLayout, g, new, "Vertical", FALSE)
          /\ (DropOnPane(g) /\ drag_over[g][1] # "Middle") =>
                LET side == SideOf(drag_over[g][1])
                    taken == RemoveChild(CurrentLayout, dragging[2], FromIndex)
                IN \E new \in DOMAIN editor_tabs' \ DOMAIN taken.editor_tabs :
                      C28_Inserted(taken, NextLayout, g, new,
                                   DirectionOf(side), Before(side))]_vars

\* C28 witness: the root, which had one pane, holds two children, the first
\* with its ratio halved and the second with ratio 1/2; one of them is a
\* Horizontal split of two panes at ratio 0.5 each.
C28_Witness ==
    \E r \in root_split \cap DOMAIN splits : \E h \in DOMAIN splits \ root_split :
        /\ Sizes(splits[r].children) = <<RoundDiv(One * 1, 2), FDiv(1, 2)>>
        /\ \E i \in 1 .. 2 : splits[r].children[i].content = SplitOf(h)
        /\ splits[h].direction = "Horizontal"
        /\ Sizes(splits[h].children) = <<FDiv(1, 2), FDiv(1, 2)>>

\* The pane that holds the tab child alone, and the place of a pane among
\* the children of its parent split.
C29_PaneOf(L, child) ==
    {h \in DOMAIN L.editor_tabs : L.editor_tabs[h].children = <<child>>}
C29_Place(L, g) ==
    SlotOf(L, CHOOSE s \in ParentsOf(L, EditorTab(g)) : TRUE, EditorTab(g))

\* C29: drop-to-split mapping.  A drop on a pane at Top, Bottom, Left or
\* Right puts the dragged tab in a new pane of its own beside the pane, in
\* a split that is Horizontal for Top and Bottom and Vertical for Left and
\* Right, just before the pane for Top and Left and just after it for Bottom
\* and Right; a drop at Middle makes no split and no pane, and the tab is
\* then in the tab list of the pane it was dropped on.
C29_DropToSplit ==
    [][\A g \in EditorTabIds :
          DropOnPane(g) =>
              LET pos == drag_over[g][1]
                  child == dragging[1]
                  L2 == NextLayout
              IN IF pos = "Middle"
                 THEN /\ DOMAIN splits' \subseteq DOMAIN splits
                      /\ DOMAIN editor_tabs' \subseteq DOMAIN editor_tabs
                      /\ child \in Range(editor_tabs'[g].children)
                 ELSE \E new \in C29_PaneOf(L2, child) \ {g} :
                        /\ ParentsOf(L2, EditorTab(new)) = ParentsOf(L2, EditorTab(g))
                        /\ \A p \in ParentsOf(L2, EditorTab(g)) :
                              splits'[p].direction =
                                  IF pos \in {"Top", "Bottom"} THEN "Horizontal"
                                  ELSE "Vertical"
                        /\ C29_Place(L2, new) =
                              IF pos \in {"Top", "Left"} THEN C29_Place(L2, g) - 1
                              ELSE C29_Place(L2, g) + 1]_vars

\* C29 witness: the dragged tab was dropped at the bottom edge of a pane:
\* it is alone in a pane that is the second child of a Horizontal split,
\* and another pane holds two tabs, one of them dropped there at Middle.
C29_Witness ==
    /\ dragging # <<>>
    /\ \E new \in C29_PaneOf(CurrentLayout, dragging[1]) :
          /\ new # dragging[2]
          /\ C29_Place(CurrentLayout, new) = 2
          /\ \A p \in ParentsOf(CurrentLayout, EditorTab(new)) :
                splits[p].direction = "Horizontal"
    /\ \E g \in OpenTabs : Len(editor_tabs[g].children) = 2

\* What the removal of the pane g makes of the tree L, giving L2: the
\* ratios of the siblings that stay under the parent, where the ratios
\* give a proportion (their sum is positive and none is negative), and the
\* splice of a parent other than the root that is left with one child.
C30_Removed(L, L2, g) ==
    LET p == CHOOSE s \in ParentsOf(L, EditorTab(g)) : TRUE
        i == SlotOf(L, p, EditorTab(g))
        old == L.splits[p].children
        rest == RemoveAt(old, i)
        total == Sum(Sizes(rest))
    IN IF Len(rest) = 1 /\ p \notin L.root
       THEN LET gp == CHOOSE s \in ParentsOf(L, SplitOf(p)) : TRUE
                j == SlotOf(L, gp, SplitOf(p))
            IN /\ p \notin DOMAIN L2.splits
               /\ Len(L2.splits[gp].children) = Len(L.splits[gp].children)
               /\ L2.splits[gp].children[j] =
                     SplitChild(L.splits[gp].children[j].size, rest[1].content)
               /\ \A k \in 1 .. Len(L.splits[gp].children) :
                     k # j => L2.splits[gp].children[k] = L.splits[gp].children[k]
       ELSE IF Len(rest) >= 1
       THEN /\ p \in DOMAIN L2.splits
            /\ Contents(L2.splits[p].children) = Contents(rest)
            /\ (total > 0 /\ \A k \in 1 .. Len(rest) : rest[k].size >= 0) =>
                  \A k \in 1 .. Len(rest) :
                      L2.splits[p].children[k].size =
                          RoundDiv(rest[k].size * (total + old[i].size), total)
       ELSE p \notin DOMAIN L2.splits

\* C30: removal rebalancing.  When a pane is closed, the ratio it leaves is
\* merged into the siblings that stay in proportion to their ratios, each
\* becoming r (T + v) / T for the sum T of theirs and the ratio v that was
\* left; and a parent other than the root that is left with one child is
\* taken out of the tree, the child taking its slot in the grandparent.
C30_RemovalRebalancing ==
    [][\A g \in EditorTabIds :
          EditorTabClose(g) => C30_Removed(CurrentLayout, NextLayout, g)]_vars

\* C30 witness: a pane was closed beside two panes whose ratios differed,
\* and they still differ by more than equal parts of the ratio it left
\* would have them differ; no two-pane resize gives these ratios.
C30_Witness ==
    \E s \in DOMAIN splits :
        /\ Len(splits[s].children) = 2
        /\ splits[s].children[1].size > splits[s].children[2].size
        /\ splits[s].children[2].size > 0
        /\ RatioError(s) <= MaxUlps
        /\ \A shift \in Shifts : \A w \in RectWidths :
              splits[s].children[1].size # FDiv(w + shift, 2 * w)
        /\ \E g \in EditorTabIds \ OpenTabs : scope_disposed[EditorTab(g)] = 1


\* The sizes a move of the pointer by shift leaves on the children of split
\* s, whose border before child index holds the pointer.
C31_Moved(s, index, rects, shift) ==
    LET total == Sum(rects)
        old == splits[s].children
        new == splits'[s].children
    IN /\ drag_start = <<s, index>>
       /\ DOMAIN splits' = DOMAIN splits
       /\ \A t \in DOMAIN splits \ {s} : splits'[t] = splits[t]
       /\ splits'[s].direction = splits[s].direction
       /\ Len(new) = Len(old)
       /\ \A i \in 1 .. Len(old) :
             /\ new[i].content = old[i].content
             /\ new[i].size =
                   IF i = index THEN FDiv(rects[i] + shift, total)
                   ELSE IF i = index + 1 THEN FDiv(rects[i] - shift, total)
                   ELSE FDiv(rects[i], total)
       /\ editor_tabs' = editor_tabs
       /\ root_split' = root_split

\* C31: resize drag step.  A pointer-move on the border of a split changes
\* ratios only while that border holds the pointer; it sets the sibling
\* before the border to (left + d) / total, the sibling after it to
\* (right - d) / total and every other sibling to its extent over the same
\* total, and leaves the order, the contents and the direction of the split
\* as they were.
C31_ResizeStep ==
    [][\A s \in SplitIds, index \in 1 .. MaxGroups - 1, n \in 2 .. MaxGroups :
          \A rects \in [1 .. n -> RectWidths], shift \in Shifts :
              PointerMove(s, index, rects, shift) =>
                  C31_Moved(s, index, rects, shift)]_vars

\* C31 witness: the first border of a split of three panes holds the pointer
\* and was moved by 10 over extents of 100 each.
C31_Witness ==
    \E s \in DOMAIN splits :
        /\ drag_start = <<s, 1>>
        /\ Sizes(splits[s].children) =
              <<FDiv(110, 300), FDiv(90, 300), FDiv(100, 300)>>


\* new_index as the drop handlers of the two headers compute it.
C32_NewIndex(t, x, width) == IF 2 * x < width THEN t ELSE t + 1

\* C32: reorder-by-drag index.  A dragged tab dropped on the tab at index t
\* is moved from the place it has when it is dropped to index t if the
\* pointer is in the first half of the target's width and to t + 1
\* otherwise; workspace tabs dropped on a workspace tab are moved by the
\* same rule.
C32_ReorderIndex ==
    [][/\ \A g \in EditorTabIds, i \in 0 .. MaxChildren - 1, x \in HeaderXs :
            DropOnHeader(g, i, x) =>
                NextLayout =
                    MoveEditorTabChild(CurrentLayout, dragging[2], g,
                        IndexOf(editor_tabs[dragging[2]].children, dragging[1]),
                        C32_NewIndex(i, x, HeaderSize[1]))
       /\ \A i \in 0 .. MaxTabs - 1, x \in HeaderXs :
            TabDrop(i, x) =>
                window_tabs' =
                    MoveTab(window_tabs, IndexOf(window_tabs, dragging_index[1]),
                            C32_NewIndex(i, x, HeaderSize[1]))]_vars

\* C32 witness: the workspace tab opened second stands before the first,
\* and the tab that is held as dragged stands second in its group, after a
\* child opened later: both lists were reordered by drops.
C32_Witness ==
    /\ Len(window_tabs) >= 2
    /\ window_tabs[1] > window_tabs[2]
    /\ DragSource
    /\ Len(editor_tabs[dragging[2]].children) >= 2
    /\ editor_tabs[dragging[2]].children[2] = dragging[1]
    /\ editor_tabs[dragging[2]].children[1] > dragging[1]


\* C33: active index in range.  In every editor tab group that is open,
\* after any sequence of opening, reordering, moves between groups, closing
\* and closing by kind, the active index is an index of the group's
\* children: 0 <= active < children.len.
C33_ActiveInRange ==
    \A g \in OpenTabs :
        /\ 0 <= editor_tabs[g].active
        /\ editor_tabs[g].active < Len(editor_tabs[g].children)

\* C33 witness: a group of two tabs has its last tab active, and a tab
\* dragged out of another group is about to be dropped: a removal has to
\* bring the active index back into range.
C33_Witness ==
    \E g \in OpenTabs :
        /\ Len(editor_tabs[g].children) = 2
        /\ editor_tabs[g].active = 1
        /\ Cardinality(OpenTabs) = 2
        /\ dragging # <<>>
        /\ dragging[2] = g


\* The handler thread of c is alive and its peer has closed the stream.
C34_PeerGone(c) == hpc[c] \in {"read", "send", "ack"} /\ ~popen[c]

C35_AtLeastOneWindow ==
    \A p \in Procs :
        pc[p] = "running" =>
            /\ Len(windows[p]) >= 1
            /\ (cli[p].paths = <<>> /\ (~db.app.ok \/ db.app.windows = <<>>)) =>
                  /\ Len(windows[p]) = 1
                  /\ windows[p][1].info.tabs.active_tab = 0
                  /\ windows[p][1].info.tabs.workspaces = <<DefaultWorkspace>>

\* C35 witness: a server started without arguments on a session store whose
\* snapshot reads well and lists no window.
C35_Witness ==
    /\ pc[1] = "running"
    /\ cli[1].paths = <<>>
    /\ db.app.ok
    /\ db.app.windows = <<>>
    /\ Len(windows[1]) = 1


\* C36 as stated: acknowledged hand-offs are applied.  Whenever the UI
\* thread of a running server takes a notification whose handler has
\* acknowledged it, the paths of the notification are opened in a window tab
\* of that server: none is dropped, also when no window tab is active.
C36_HandoffsApplied ==
    [][\A s \in Procs :
          (/\ UiOpenPaths(s)
           /\ hpc[Head(pending[s]).from] # "ack")
             => Range(Head(pending[s]).paths) \subseteq opened'[s]]_vars


\* C37: active window is open.  Whenever a window is open, the window that
\* AppData::active_window() resolves is one of the open windows, also when
\* the window that last got focus has been closed and before any window
\* has got focus.
C37_ActiveWindowOpen ==
    DOMAIN liveWindows # {} =>
        /\ ActiveWindow(liveWindows, active_window) # {}
        /\ ActiveWindow(liveWindows, active_window) \subseteq DOMAIN liveWindows

\* C37 witness: the window that last got focus has been closed and another
\* window is open.
C37_Witness ==
    /\ active_window \in closed
    /\ active_window \notin DOMAIN liveWindows
    /\ DOMAIN liveWindows # {}


\* C38: window-closed after termination is a no-op.  Once the termination
\* event has been handled, a WindowClosed command leaves AppData::windows,
\* the scopes of the windows and the persisted snapshot as they are, and the
\* next start-up restores every window that was open at the termination.
C38_ClosedAfterTermination ==
    /\ [][\A w \in WindowIds :
            (WindowClosed(w) /\ app_terminated) =>
                /\ liveWindows' = liveWindows
                /\ disposed' = disposed
                /\ db' = db]_vars
    /\ [][(Relaunch /\ app_terminated) =>
            \A w \in DOMAIN liveWindows :
                \E v \in DOMAIN liveWindows' : liveWindows'[v] = liveWindows[w]]_vars

\* C38 witness: two windows were open at the termination event, both have
\* been reported closed since, and the snapshot still lists both.
C38_Witness ==
    /\ app_terminated
    /\ Cardinality(DOMAIN liveWindows) = 2
    /\ closed = DOMAIN liveWindows
    /\ disposed = {}
    /\ Len(db.app.windows) = 2


\* The layout and the order of the workspace tabs stay as they are.
C39_Inert ==
    /\ NextLayout = CurrentLayout
    /\ window_tabs' = window_tabs

\* C39: drop without a drag is inert.  A Drop on a tab header, on a pane or
\* on a workspace tab header while nothing is dragged there moves, reorders
\* and splits nothing and is passed on; a Drop on a pane with a tab dragged
\* but no drop position recorded changes nothing of the layout either.
C39_DropWithoutDrag ==
    [][/\ \A g \in EditorTabIds :
            (/\ dragging = <<>> \/ drag_over[g] = <<>>
             /\ DropOnPane(g) \/ DropOnPaneInert(g))
               => /\ C39_Inert
                  /\ dragging = <<>> => DropResult(dragging) = "Continue"
       /\ \A g \in EditorTabIds, i \in 0 .. MaxChildren - 1, x \in HeaderXs :
            (/\ dragging = <<>>
             /\ DropOnHeader(g, i, x) \/ DropOnHeaderInert(g, i, x))
               => C39_Inert /\ DropResult(dragging) = "Continue"
       /\ \A i \in 0 .. MaxTabs - 1, x \in HeaderXs :
            (/\ dragging_index = <<>>
             /\ TabDrop(i, x) \/ TabDropInert(i, x))
               => C39_Inert /\ DropResult(dragging_index) = "Continue"]_vars

\* C39 witness: a tab of one of two panes is dragged and no pane has a drop
\* position, with two workspace tabs open and none of them dragged.
C39_Witness ==
    /\ DragSource
    /\ \A g \in EditorTabIds : drag_over[g] = <<>>
    /\ Cardinality(OpenTabs) = 2
    /\ Len(window_tabs) = 2
    /\ dragging_index = <<>>


====
